---- MODULE Spec2Model ----
(***************************************************************************)
(* Verification model of linkedin-automation-poc.                          *)
(*                                                                         *)
(*   package interaction : Limits    (daily caps, cooldowns, consecutive)  *)
(*   package stealth     : Scheduler (weekday / business hours / breaks)   *)
(*                                                                         *)
(* Time is a discrete clock `now`.  One tick is the resolution of the      *)
(* model: it is one second for the cooldown arithmetic and one hour-slot   *)
(* of a (shortened) day for the calendar functions Hour, Day and Weekday.  *)
(***************************************************************************)
EXTENDS Integers, Sequences, FiniteSets, TLC

----------------------------------------------------------------------------
(* Bounds of the model *)

\* last clock value the model explores
MaxTime == 4
\* length of a calendar day, in ticks (hour slots 0 .. TicksPerDay-1)
TicksPerDay == 2
\* length of a calendar month, in days (days of month 1 .. DaysPerMonth)
DaysPerMonth == 2
\* Record* calls are explored while the counter is below this value
MaxCount == 2
\* RecordAction calls are explored while fewer than this many were made since
\* the last break
MaxActions == 2
\* goroutines sharing one Limits or one Scheduler
NumGoroutines == 2

----------------------------------------------------------------------------
(* State *)

VARIABLES
    now,               \* time.Now()
    \* --- Limits (package interaction)
    config,            \* Limits.config : config.LimitsConfig; under the
                       \* specifications of Mouse, Typing and Scroll the config
                       \* field of that controller, under SpecFingerprint the
                       \* config.FingerprintConfig
    connectionCount,   \* Limits.connectionCount
    messageCount,      \* Limits.messageCount
    searchCount,       \* Limits.searchCount
    lastConnection,    \* Limits.lastConnection (ZeroTime until first record)
    lastMessage,       \* Limits.lastMessage
    consecutiveCount,  \* Limits.consecutiveCount
    lastReset,         \* Limits.lastReset
    \* --- Scheduler (package stealth)
    scheduleConfig,    \* Scheduler.config : config.ScheduleConfig
    actionCount,       \* Scheduler.actionCount
    lastBreakTime,     \* Scheduler.lastBreakTime
    \* --- call history (observation of the last completed call)
    lastOp,            \* name of the last completed call ("Tick" for time passing)
    ret,               \* its return value; for the guarded callers of Limits,
                       \* per goroutine, whether it holds a permission; for
                       \* calculateNextStartTime its argument, its local next
                       \* and where the call stands
    recorded,          \* RecordConnection calls completed since NewLimits / ResetDaily
    freshReset,        \* TRUE from a ResetDaily until time passes or state is written
    actionsSinceBreak, \* RecordAction calls completed since NewScheduler / TakeBreak
    resetSinceBreak,   \* TRUE once ResetActionCount was called since then
    \* --- goroutines calling into one shared instance
    mu,                \* Limits.mu : the goroutine holding it, NoHolder if unlocked
    pc,                \* per goroutine: where it is inside its current call
    op,                \* per goroutine: the method it is executing
    tmp,               \* per goroutine: the value it loaded for a ++ or a read
    res,               \* per goroutine: the value its call is about to return
    recordedConsecutive, \* RecordConnection calls completed since the consecutive
                       \* counter was last reset
    \* --- the browser page (rod.Page) read by Checkpoint and Parser
    page,              \* what the selectors resolve to, the URL and the body text;
                       \* for Mouse, Typing and Scroll the pointer, the keyboard
                       \* and the scroll height of the page (under
                       \* SpecSmoothScroll the wheel deltas executed); for
                       \* cleanName the text of an element; for Pagination the
                       \* URL shown and Pagination.currentPage
    \* --- Timing (package stealth)
    timing,            \* the Timing controller, a record of
                       \*   config        : Timing.config (config.TimingConfig)
                       \*   actionCount   : Timing.actionCount
                       \*   fatigueActive : Timing.fatigueActive
                       \*   sampled       : the delay drawn by the last call before
                       \*                   any fatigue scaling
                       \*   wasReset      : ResetFatigue has been called
                       \*   sinceReset    : the ActionDelay and IncrementAction
                       \*                   calls since the last ResetFatigue (or
                       \*                   since NewTiming), in order
    \* --- main (the orchestration of one run)
    main,              \* the run of main, a record of
                       \*   pc             : the statement the process stands before
                       \*   exitStatus     : the status the process ended with,
                       \*                    NoRet while it runs
                       \*   visitIndex     : the loop variable i
                       \*   executed       : the steps completed so far, in order
                       \*   detected       : what Checkpoint.Detect returned
                       \*   siteActions    : what the run did on the site:
                       \*                    [verb, control, url]
                       \*   messageRecords : the MessageRecords created by the
                       \*                    messaging service
                       \*   unix           : the second the run started in
                       \*   store          : the rows of the sessions table:
                       \*                    [id, cookies]
                       \*   earlier        : the sessions table as the run found it
                       \*   run            : the number of the run
                       \* (under SpecSessionManager the Session main keeps in
                       \* sessionMgr: sessionID and cookies)
    profiles,          \* main's profiles, as returned by ParseResults
    logged             \* log events of the last call (of the whole run under main)

limitsVars == <<config, connectionCount, messageCount, searchCount, lastConnection,
                lastMessage, consecutiveCount, lastReset>>
limitsHist == <<recorded, freshReset>>
schedulerVars == <<scheduleConfig, actionCount, lastBreakTime>>
schedulerHist == <<actionsSinceBreak, resetSinceBreak>>
histVars == <<lastOp, ret, limitsHist, schedulerHist>>
goVars == <<mu, pc, op, tmp, res, recordedConsecutive>>
timingVars == <<timing>>
mainVars == <<main, profiles>>
\* the components that share nothing with Limits and Scheduler
appVars == <<page, timingVars, mainVars, logged>>
vars == <<now, limitsVars, schedulerVars, histVars, goVars, appVars>>
\* what a method of Limits / of Scheduler called by the single caller cannot reach
outsideLimits == <<schedulerVars, schedulerHist, goVars, appVars>>
outsideScheduler == <<limitsVars, limitsHist, goVars, appVars>>

----------------------------------------------------------------------------
(* time.Time and time.Duration *)

\* the zero time.Time{} (IsZero() reports true)
ZeroTime == -1
IsZero(t) == t = ZeroTime

\* calendar date (days since the epoch of the model) of instant t
Date(t) == t \div TicksPerDay
\* time.Time.Day(): the day of the month, 1 .. DaysPerMonth
Day(t) == (Date(t) % DaysPerMonth) + 1
\* time.Time.Hour(): the hour slot within the day
Hour(t) == t % TicksPerDay
\* time.Since(t)
Since(t) == now - t

Digits == <<"0", "1", "2", "3", "4", "5", "6", "7", "8", "9">>
\* fmt's %d for a non-negative int
RECURSIVE Itoa(_)
Itoa(n) == IF n < 10 THEN Digits[n + 1] ELSE Itoa(n \div 10) \o Digits[(n % 10) + 1]
\* fmt's %s of a time.Duration of whole seconds below one minute ("0s", "2s", ...)
DurationString(d) == Itoa(d) \o "s"

NoRet == "void"

----------------------------------------------------------------------------
(* Limits: pure parts of the Can* methods *)

\* the configurations NewLimits is explored with
LimitsConfigs ==
    [DailyConnections : {1, 2}, DailyMessages : {1}, DailySearches : {1},
     ConnectionCooldown : {2}, MessageCooldown : {2},
     MaxConsecutiveActions : {1, 3}]

\* the cooldown consulted before the daily quota
CanSendConnectionRet_CooldownFirst ==
    IF ~IsZero(lastConnection) /\ Since(lastConnection) < config.ConnectionCooldown
    THEN [ok |-> FALSE,
          reason |-> "connection cooldown active (wait "
                     \o DurationString(config.ConnectionCooldown - Since(lastConnection))
                     \o ")"]
    ELSE IF connectionCount >= config.DailyConnections
    THEN [ok |-> FALSE,
          reason |-> "daily connection limit reached (" \o Itoa(connectionCount)
                     \o "/" \o Itoa(config.DailyConnections) \o ")"]
    ELSE IF consecutiveCount >= config.MaxConsecutiveActions
    THEN [ok |-> FALSE,
          reason |-> "max consecutive actions reached ("
                     \o Itoa(config.MaxConsecutiveActions) \o "), take a break"]
    ELSE [ok |-> TRUE, reason |-> "ok"]

CanSendConnectionRet ==
    IF connectionCount >= config.DailyConnections
    THEN [ok |-> FALSE,
          reason |-> "daily connection limit reached (" \o Itoa(connectionCount)
                     \o "/" \o Itoa(config.DailyConnections) \o ")"]
    ELSE IF ~IsZero(lastConnection) /\ Since(lastConnection) < config.ConnectionCooldown
    THEN [ok |-> FALSE,
          reason |-> "connection cooldown active (wait "
                     \o DurationString(config.ConnectionCooldown - Since(lastConnection))
                     \o ")"]
    ELSE IF consecutiveCount >= config.MaxConsecutiveActions
    THEN [ok |-> FALSE,
          reason |-> "max consecutive actions reached ("
                     \o Itoa(config.MaxConsecutiveActions) \o "), take a break"]
    ELSE [ok |-> TRUE, reason |-> "ok"]

\* the message cooldown forgotten
CanSendMessageRet_NoCooldown ==
    IF messageCount >= config.DailyMessages
    THEN [ok |-> FALSE,
          reason |-> "daily message limit reached (" \o Itoa(messageCount)
                     \o "/" \o Itoa(config.DailyMessages) \o ")"]
    ELSE [ok |-> TRUE, reason |-> "ok"]

CanSendMessageRet ==
    IF messageCount >= config.DailyMessages
    THEN [ok |-> FALSE,
          reason |-> "daily message limit reached (" \o Itoa(messageCount)
                     \o "/" \o Itoa(config.DailyMessages) \o ")"]
    ELSE IF ~IsZero(lastMessage) /\ Since(lastMessage) < config.MessageCooldown
    THEN [ok |-> FALSE,
          reason |-> "message cooldown active (wait "
                     \o DurationString(config.MessageCooldown - Since(lastMessage))
                     \o ")"]
    ELSE [ok |-> TRUE, reason |-> "ok"]

CanSearchRet ==
    IF searchCount >= config.DailySearches
    THEN [ok |-> FALSE,
          reason |-> "daily search limit reached (" \o Itoa(searchCount)
                     \o "/" \o Itoa(config.DailySearches) \o ")"]
    ELSE [ok |-> TRUE, reason |-> "ok"]

ShouldResetDailyRet == Day(lastReset) # Day(now)

----------------------------------------------------------------------------
(* Limits: one action per method, each the whole method under l.mu *)

\* a call that only reads: returns r, writes nothing
Query(name, r) ==
    /\ lastOp' = name
    /\ ret' = r
    /\ UNCHANGED <<now, limitsVars, limitsHist>>
    /\ UNCHANGED outsideLimits

NewLimits ==
    /\ config \in LimitsConfigs
    /\ connectionCount = 0
    /\ messageCount = 0
    /\ searchCount = 0
    /\ lastConnection = ZeroTime
    /\ lastMessage = ZeroTime
    /\ consecutiveCount = 0
    /\ lastReset = now

CanSendConnection == Query("CanSendConnection", CanSendConnectionRet)

CanSendMessage == Query("CanSendMessage", CanSendMessageRet)

CanSearch == Query("CanSearch", CanSearchRet)

RecordConnection ==
    /\ connectionCount < MaxCount
    /\ connectionCount' = connectionCount + 1
    /\ lastConnection' = now
    /\ consecutiveCount' = consecutiveCount + 1
    /\ lastOp' = "RecordConnection"
    /\ ret' = NoRet
    /\ recorded' = recorded + 1
    /\ freshReset' = FALSE
    /\ UNCHANGED <<now, config, messageCount, searchCount, lastMessage, lastReset>>
    /\ UNCHANGED outsideLimits

\* a message counted as a consecutive action as well
RecordMessage_CountsConsecutive ==
    /\ messageCount < MaxCount
    /\ messageCount' = messageCount + 1
    /\ lastMessage' = now
    /\ consecutiveCount' = consecutiveCount + 1
    /\ lastOp' = "RecordMessage"
    /\ ret' = NoRet
    /\ freshReset' = FALSE
    /\ UNCHANGED <<now, config, connectionCount, searchCount, lastConnection,
                   lastReset, recorded>>
    /\ UNCHANGED outsideLimits

RecordMessage ==
    /\ messageCount < MaxCount
    /\ messageCount' = messageCount + 1
    /\ lastMessage' = now
    /\ lastOp' = "RecordMessage"
    /\ ret' = NoRet
    /\ freshReset' = FALSE
    /\ UNCHANGED <<now, config, connectionCount, searchCount, lastConnection,
                   consecutiveCount, lastReset, recorded>>
    /\ UNCHANGED outsideLimits

RecordSearch ==
    /\ searchCount < MaxCount
    /\ searchCount' = searchCount + 1
    /\ lastOp' = "RecordSearch"
    /\ ret' = NoRet
    /\ freshReset' = FALSE
    /\ UNCHANGED <<now, config, connectionCount, messageCount, lastConnection,
                   lastMessage, consecutiveCount, lastReset, recorded>>
    /\ UNCHANGED outsideLimits

ResetConsecutiveCount ==
    /\ consecutiveCount' = 0
    /\ lastOp' = "ResetConsecutiveCount"
    /\ ret' = NoRet
    /\ freshReset' = FALSE
    /\ UNCHANGED <<now, config, connectionCount, messageCount, searchCount,
                   lastConnection, lastMessage, lastReset, recorded>>
    /\ UNCHANGED outsideLimits

\* the connection counter left out of the daily reset
ResetDaily_KeepsConnections ==
    /\ messageCount' = 0
    /\ searchCount' = 0
    /\ consecutiveCount' = 0
    /\ lastReset' = now
    /\ lastOp' = "ResetDaily"
    /\ ret' = NoRet
    /\ recorded' = 0
    /\ freshReset' = TRUE
    /\ UNCHANGED <<now, config, connectionCount, lastConnection, lastMessage>>
    /\ UNCHANGED outsideLimits

ResetDaily ==
    /\ connectionCount' = 0
    /\ messageCount' = 0
    /\ searchCount' = 0
    /\ consecutiveCount' = 0
    /\ lastReset' = now
    /\ lastOp' = "ResetDaily"
    /\ ret' = NoRet
    /\ recorded' = 0
    /\ freshReset' = TRUE
    /\ UNCHANGED <<now, config, lastConnection, lastMessage>>
    /\ UNCHANGED outsideLimits

\* a rollover check that performs the reset itself when the day changed
ShouldResetDaily_AutoReset ==
    /\ lastOp' = "ShouldResetDaily"
    /\ ret' = ShouldResetDailyRet
    /\ IF ShouldResetDailyRet
       THEN /\ connectionCount' = 0
            /\ messageCount' = 0
            /\ searchCount' = 0
            /\ consecutiveCount' = 0
            /\ lastReset' = now
       ELSE UNCHANGED <<connectionCount, messageCount, searchCount, consecutiveCount,
                        lastReset>>
    /\ UNCHANGED <<now, config, lastConnection, lastMessage, recorded, freshReset>>
    /\ UNCHANGED outsideLimits

ShouldResetDaily == Query("ShouldResetDaily", ShouldResetDailyRet)

GetConnectionCount == Query("GetConnectionCount", connectionCount)

GetMessageCount == Query("GetMessageCount", messageCount)

GetSearchCount == Query("GetSearchCount", searchCount)

GetRemainingConnections ==
    Query("GetRemainingConnections",
          IF config.DailyConnections - connectionCount < 0
          THEN 0 ELSE config.DailyConnections - connectionCount)

GetRemainingMessages ==
    Query("GetRemainingMessages",
          IF config.DailyMessages - messageCount < 0
          THEN 0 ELSE config.DailyMessages - messageCount)

GetStats ==
    Query("GetStats",
          [connections |-> [sent |-> connectionCount,
                            limit |-> config.DailyConnections,
                            remaining |-> config.DailyConnections - connectionCount],
           messages |-> [sent |-> messageCount,
                         limit |-> config.DailyMessages,
                         remaining |-> config.DailyMessages - messageCount],
           searches |-> [performed |-> searchCount,
                         limit |-> config.DailySearches,
                         remaining |-> config.DailySearches - searchCount],
           consecutive_actions |-> consecutiveCount,
           last_reset |-> lastReset])

\* time.Sleep(d): the clock advances by d while the caller is blocked
Sleep(d) ==
    /\ now + d <= MaxTime
    /\ now' = now + d

\* the body shared by WaitForConnectionCooldown and WaitForMessageCooldown
WaitFor(name, last, cooldown) ==
    /\ IF ~IsZero(last) /\ Since(last) < cooldown
       THEN Sleep(cooldown - Since(last)) /\ freshReset' = FALSE
       ELSE UNCHANGED <<now, freshReset>>
    /\ lastOp' = name
    /\ ret' = NoRet
    /\ UNCHANGED <<limitsVars, recorded>>
    /\ UNCHANGED outsideLimits

WaitForConnectionCooldown ==
    WaitFor("WaitForConnectionCooldown", lastConnection, config.ConnectionCooldown)

WaitForMessageCooldown ==
    WaitFor("WaitForMessageCooldown", lastMessage, config.MessageCooldown)

\* time passes while no call is in progress
Tick ==
    /\ Sleep(1)
    /\ lastOp' = "Tick"
    /\ ret' = NoRet
    /\ freshReset' = FALSE
    /\ UNCHANGED <<limitsVars, recorded, schedulerVars, schedulerHist, goVars, appVars>>

----------------------------------------------------------------------------
(* Specification of one Limits instance used by one caller *)

Goroutines == 1 .. NumGoroutines
NoHolder == 0
\* pc of a goroutine that is not inside a call
Idle == 0

\* no goroutine is inside a call
NoGoroutines ==
    /\ mu = NoHolder
    /\ pc = [g \in Goroutines |-> Idle]
    /\ op = [g \in Goroutines |-> NoRet]
    /\ tmp = [g \in Goroutines |-> 0]
    /\ res = [g \in Goroutines |-> NoRet]
    /\ recordedConsecutive = 0

\* no Scheduler is constructed
NoScheduler ==
    /\ scheduleConfig = NoRet
    /\ actionCount = 0
    /\ lastBreakTime = ZeroTime
    /\ actionsSinceBreak = 0
    /\ resetSinceBreak = FALSE

\* no page is loaded
NoPage == page = NoRet

\* no Timing controller is constructed
NoTiming == timing = NoRet

\* main is not running
NoMain ==
    /\ main = NoRet
    /\ profiles = <<>>

\* none of the components outside Limits and Scheduler is in use
NoApp ==
    /\ NoPage
    /\ NoTiming
    /\ NoMain
    /\ logged = {}

LimitsInit ==
    /\ now = 0
    /\ NoApp
    /\ NewLimits
    /\ NoScheduler
    /\ NoGoroutines
    /\ lastOp = "NewLimits"
    /\ ret = NoRet
    /\ recorded = 0
    /\ freshReset = FALSE

LimitsNext ==
    \/ CanSendConnection
    \/ CanSendMessage
    \/ CanSearch
    \/ RecordConnection
    \/ RecordMessage
    \/ RecordSearch
    \/ ResetConsecutiveCount
    \/ ResetDaily
    \/ ShouldResetDaily
    \/ GetConnectionCount
    \/ GetMessageCount
    \/ GetSearchCount
    \/ GetRemainingConnections
    \/ GetRemainingMessages
    \/ GetStats
    \/ WaitForConnectionCooldown
    \/ WaitForMessageCooldown
    \/ Tick

SpecLimits == LimitsInit /\ [][LimitsNext]_vars

----------------------------------------------------------------------------
(* Scheduler (package stealth): pure parts *)

\* time.Weekday.String(), Sunday first
WeekdayNames ==
    <<"Sunday", "Monday", "Tuesday", "Wednesday", "Thursday", "Friday", "Saturday">>
\* time.Time.Weekday().String(); day 0 of the model's calendar is a Sunday
Weekday(t) == WeekdayNames[(Date(t) % Len(WeekdayNames)) + 1]

\* the configurations NewScheduler is explored with (start_hour < end_hour, as
\* the loader's validate requires; the window is one hour slot long)
ScheduleConfigs ==
    {c \in [BusinessHoursOnly : BOOLEAN, StartHour : {0, 1}, EndHour : {1, 2},
            BreakAfter : {0, 2}, BreakDuration : {2},
            Weekdays : {<<>>, <<"Monday", "Tuesday">>}] :
        c.EndHour = c.StartHour + 1}

isValidWeekday(t) ==
    IF Len(scheduleConfig.Weekdays) = 0
    THEN TRUE
    ELSE \E i \in 1 .. Len(scheduleConfig.Weekdays) :
             scheduleConfig.Weekdays[i] = Weekday(t)

\* the end hour taken as part of the business hours
isBusinessHours_EndInclusive(t) ==
    Hour(t) >= scheduleConfig.StartHour /\ Hour(t) <= scheduleConfig.EndHour

isBusinessHours(t) ==
    Hour(t) >= scheduleConfig.StartHour /\ Hour(t) < scheduleConfig.EndHour

\* a break due only once the count has passed BreakAfter
needsBreak_Late ==
    IF scheduleConfig.BreakAfter <= 0
    THEN FALSE
    ELSE actionCount > scheduleConfig.BreakAfter

needsBreak ==
    IF scheduleConfig.BreakAfter <= 0
    THEN FALSE
    ELSE actionCount >= scheduleConfig.BreakAfter

ShouldRunRet ==
    IF ~isValidWeekday(now)
    THEN [ok |-> FALSE, reason |-> "not a configured weekday: " \o Weekday(now)]
    ELSE IF scheduleConfig.BusinessHoursOnly /\ ~isBusinessHours(now)
    THEN [ok |-> FALSE,
          reason |-> "outside business hours (" \o Itoa(scheduleConfig.StartHour)
                     \o ":00-" \o Itoa(scheduleConfig.EndHour) \o ":00)"]
    ELSE IF needsBreak
    THEN [ok |-> FALSE,
          reason |-> "break required after " \o Itoa(scheduleConfig.BreakAfter)
                     \o " actions"]
    ELSE [ok |-> TRUE, reason |-> "ok to run"]

----------------------------------------------------------------------------
(* Scheduler: one action per method *)

NewScheduler ==
    /\ scheduleConfig \in ScheduleConfigs
    /\ actionCount = 0
    /\ lastBreakTime = now

ShouldRun ==
    /\ lastOp' = "ShouldRun"
    /\ ret' = ShouldRunRet
    /\ UNCHANGED <<now, schedulerVars, schedulerHist>>
    /\ UNCHANGED outsideScheduler

TakeBreak ==
    /\ Sleep(scheduleConfig.BreakDuration)
    /\ actionCount' = 0
    /\ lastBreakTime' = now'
    /\ lastOp' = "TakeBreak"
    /\ ret' = NoRet
    /\ actionsSinceBreak' = 0
    /\ resetSinceBreak' = FALSE
    /\ UNCHANGED scheduleConfig
    /\ UNCHANGED outsideScheduler

RecordAction ==
    /\ actionCount < MaxActions
    /\ actionsSinceBreak < MaxActions
    /\ actionCount' = actionCount + 1
    /\ lastOp' = "RecordAction"
    /\ ret' = NoRet
    /\ actionsSinceBreak' = actionsSinceBreak + 1
    /\ UNCHANGED <<now, scheduleConfig, lastBreakTime, resetSinceBreak>>
    /\ UNCHANGED outsideScheduler

GetActionCount ==
    /\ lastOp' = "GetActionCount"
    /\ ret' = actionCount
    /\ UNCHANGED <<now, schedulerVars, schedulerHist>>
    /\ UNCHANGED outsideScheduler

\* the counter cleared by a break that was not slept
ResetActionCount ==
    /\ actionCount' = 0
    /\ lastOp' = "ResetActionCount"
    /\ ret' = NoRet
    /\ resetSinceBreak' = TRUE
    /\ UNCHANGED <<now, scheduleConfig, lastBreakTime, actionsSinceBreak>>
    /\ UNCHANGED outsideScheduler

----------------------------------------------------------------------------
(* Specification of one Scheduler used by one caller, next to a Limits in    *)
(* which the same caller records its connections and searches                *)

\* the Limits configuration of that caller
SchedulerLimitsConfig ==
    [DailyConnections |-> 2, DailyMessages |-> 1, DailySearches |-> 1,
     ConnectionCooldown |-> 2, MessageCooldown |-> 2, MaxConsecutiveActions |-> 3]

SchedulerInit ==
    /\ now = 0
    /\ NoApp
    /\ NewScheduler
    /\ NewLimits
    /\ config = SchedulerLimitsConfig
    /\ NoGoroutines
    /\ lastOp = "NewScheduler"
    /\ ret = NoRet
    /\ recorded = 0
    /\ freshReset = FALSE
    /\ actionsSinceBreak = 0
    /\ resetSinceBreak = FALSE

SchedulerNext ==
    \/ ShouldRun
    \/ TakeBreak
    \/ RecordAction
    \/ GetActionCount
    \/ ResetActionCount
    \/ RecordConnection
    \/ RecordSearch
    \/ Tick

SpecScheduler == SchedulerInit /\ [][SchedulerNext]_vars

----------------------------------------------------------------------------
(* Goroutines: the methods as sequences of memory accesses *)

\* The body of a method, one entry per access to a field of the instance:
\*   <<"load", f>>  read field f into a register       (first half of f++)
\*   <<"inc", f>>   write register + 1 to field f      (second half of f++)
\*   <<"zero", f>>  f = 0
\*   <<"now", f>>   f = time.Now()
\*   <<"sleep", d>> time.Sleep(d)
\*   <<"ret", m>>   evaluate the return value of m from the fields
Program(m) ==
    CASE m = "RecordConnection" ->
             <<<<"load", "connectionCount">>, <<"inc", "connectionCount">>,
               <<"now", "lastConnection">>,
               <<"load", "consecutiveCount">>, <<"inc", "consecutiveCount">>>>
      [] m = "RecordMessage" ->
             <<<<"load", "messageCount">>, <<"inc", "messageCount">>,
               <<"now", "lastMessage">>>>
      [] m = "RecordSearch" ->
             <<<<"load", "searchCount">>, <<"inc", "searchCount">>>>
      [] m = "ResetConsecutiveCount" -> <<<<"zero", "consecutiveCount">>>>
      [] m = "ResetDaily" ->
             <<<<"zero", "connectionCount">>, <<"zero", "messageCount">>,
               <<"zero", "searchCount">>, <<"zero", "consecutiveCount">>,
               <<"now", "lastReset">>>>
      [] m = "GetStats" -> <<<<"load", "connectionCount">>, <<"ret", "GetStats">>>>
      [] m \in {"CanSendConnection", "CanSendMessage", "CanSearch",
                "GetConnectionCount"} -> <<<<"ret", m>>>>
      [] m = "RecordAction" -> <<<<"load", "actionCount">>, <<"inc", "actionCount">>>>
      [] m = "ResetActionCount" -> <<<<"zero", "actionCount">>>>
      [] m = "TakeBreak" ->
             <<<<"load", "actionCount">>, <<"sleep", scheduleConfig.BreakDuration>>,
               <<"zero", "actionCount">>, <<"now", "lastBreakTime">>>>
      [] m \in {"ShouldRun", "GetActionCount"} -> <<<<"ret", m>>>>

\* the access goroutine g is about to make, <<"none">> outside a body
Instr(g) ==
    IF pc[g] # Idle /\ pc[g] <= Len(Program(op[g]))
    THEN Program(op[g])[pc[g]]
    ELSE <<"none">>
\* g has executed its whole body and is about to return
AtReturn(g) == pc[g] # Idle /\ pc[g] = Len(Program(op[g])) + 1

ReadField(f) ==
    CASE f = "connectionCount" -> connectionCount
      [] f = "messageCount" -> messageCount
      [] f = "searchCount" -> searchCount
      [] f = "consecutiveCount" -> consecutiveCount
      [] f = "actionCount" -> actionCount

WriteField(f, v) ==
    /\ connectionCount' = IF f = "connectionCount" THEN v ELSE connectionCount
    /\ messageCount' = IF f = "messageCount" THEN v ELSE messageCount
    /\ searchCount' = IF f = "searchCount" THEN v ELSE searchCount
    /\ consecutiveCount' = IF f = "consecutiveCount" THEN v ELSE consecutiveCount
    /\ lastConnection' = IF f = "lastConnection" THEN v ELSE lastConnection
    /\ lastMessage' = IF f = "lastMessage" THEN v ELSE lastMessage
    /\ lastReset' = IF f = "lastReset" THEN v ELSE lastReset
    /\ actionCount' = IF f = "actionCount" THEN v ELSE actionCount
    /\ lastBreakTime' = IF f = "lastBreakTime" THEN v ELSE lastBreakTime
    /\ UNCHANGED <<config, scheduleConfig>>

\* what method m returns, computed from the fields (and g's register)
ReturnValue(g, m) ==
    CASE m = "CanSendConnection" -> CanSendConnectionRet
      [] m = "CanSendMessage" -> CanSendMessageRet
      [] m = "CanSearch" -> CanSearchRet
      [] m = "GetConnectionCount" -> connectionCount
      [] m = "GetStats" -> [sent |-> tmp[g], consecutive_actions |-> consecutiveCount]
      [] m = "ShouldRun" -> ShouldRunRet
      [] m = "GetActionCount" -> actionCount

Advance(g) == pc' = [pc EXCEPT ![g] = pc[g] + 1]

\* the calls explored: a counter is incremented while below its bound
CallExplored(m) ==
    /\ m = "RecordConnection" => connectionCount < MaxCount
    /\ m = "RecordMessage" => messageCount < MaxCount
    /\ m = "RecordSearch" => searchCount < MaxCount
    /\ m = "RecordAction" => actionCount < MaxActions /\ actionsSinceBreak < MaxActions

Load(g) ==
    /\ Instr(g)[1] = "load"
    /\ tmp' = [tmp EXCEPT ![g] = ReadField(Instr(g)[2])]
    /\ Advance(g)
    /\ UNCHANGED <<appVars, now, limitsVars, schedulerVars, histVars, mu, op, res,
                   recordedConsecutive>>

Inc(g) ==
    /\ Instr(g)[1] = "inc"
    /\ WriteField(Instr(g)[2], tmp[g] + 1)
    /\ Advance(g)
    /\ UNCHANGED <<appVars, now, histVars, mu, op, tmp, res, recordedConsecutive>>

Zero(g) ==
    /\ Instr(g)[1] = "zero"
    /\ WriteField(Instr(g)[2], 0)
    /\ Advance(g)
    /\ UNCHANGED <<appVars, now, histVars, mu, op, tmp, res, recordedConsecutive>>

Stamp(g) ==
    /\ Instr(g)[1] = "now"
    /\ WriteField(Instr(g)[2], now)
    /\ Advance(g)
    /\ UNCHANGED <<appVars, now, histVars, mu, op, tmp, res, recordedConsecutive>>

Result(g) ==
    /\ Instr(g)[1] = "ret"
    /\ res' = [res EXCEPT ![g] = ReturnValue(g, Instr(g)[2])]
    /\ Advance(g)
    /\ UNCHANGED <<appVars, now, limitsVars, schedulerVars, histVars, mu, op, tmp,
                   recordedConsecutive>>

Sleeping(g) ==
    /\ Instr(g)[1] = "sleep"
    /\ Sleep(Instr(g)[2])
    /\ Advance(g)
    /\ UNCHANGED <<appVars, limitsVars, schedulerVars, histVars, mu, op, tmp, res,
                   recordedConsecutive>>

----------------------------------------------------------------------------
(* Limits shared by goroutines: every method is                             *)
(*     l.mu.Lock(); defer l.mu.Unlock(); body                               *)

LimitsMethods ==
    {"CanSendConnection", "CanSendMessage", "CanSearch", "RecordConnection",
     "RecordMessage", "RecordSearch", "ResetConsecutiveCount", "ResetDaily",
     "GetConnectionCount", "GetStats"}

\* a Lock that returns although the mutex is held
MutexFree_Ignored == TRUE

\* sync.Mutex: Lock returns only while no goroutine holds the mutex
MutexFree == mu = NoHolder

\* g calls method m: l.mu.Lock() returns and g stands before the body
Lock(g, m) ==
    /\ pc[g] = Idle
    /\ CallExplored(m)
    /\ MutexFree
    /\ mu' = g
    /\ pc' = [pc EXCEPT ![g] = 1]
    /\ op' = [op EXCEPT ![g] = m]
    /\ UNCHANGED <<appVars, now, limitsVars, schedulerVars, histVars, tmp, res,
                   recordedConsecutive>>

\* the deferred l.mu.Unlock() and the return to the caller
Unlock(g) ==
    /\ AtReturn(g)
    /\ op[g] \in LimitsMethods
    /\ mu' = NoHolder
    /\ pc' = [pc EXCEPT ![g] = Idle]
    /\ op' = [op EXCEPT ![g] = NoRet]
    /\ tmp' = [tmp EXCEPT ![g] = 0]
    /\ res' = [res EXCEPT ![g] = NoRet]
    /\ recorded' = CASE op[g] = "RecordConnection" -> recorded + 1
                     [] op[g] = "ResetDaily" -> 0
                     [] OTHER -> recorded
    /\ recordedConsecutive' =
           CASE op[g] = "RecordConnection" -> recordedConsecutive + 1
             [] op[g] \in {"ResetDaily", "ResetConsecutiveCount"} -> 0
             [] OTHER -> recordedConsecutive
    /\ UNCHANGED <<appVars, now, limitsVars, schedulerVars, lastOp, ret, freshReset,
                   schedulerHist>>

LimitsConcurrentInit ==
    /\ now = 0
    /\ NoApp
    /\ NewLimits
    /\ config = SchedulerLimitsConfig
    /\ NoScheduler
    /\ NoGoroutines
    /\ lastOp = "NewLimits"
    /\ ret = NoRet
    /\ recorded = 0
    /\ freshReset = FALSE

LimitsConcurrentNext ==
    \/ \E g \in Goroutines, m \in LimitsMethods : Lock(g, m)
    \/ \E g \in Goroutines : Load(g)
    \/ \E g \in Goroutines : Inc(g)
    \/ \E g \in Goroutines : Zero(g)
    \/ \E g \in Goroutines : Stamp(g)
    \/ \E g \in Goroutines : Result(g)
    \/ \E g \in Goroutines : Unlock(g)
    \/ Tick

SpecLimitsConcurrent == LimitsConcurrentInit /\ [][LimitsConcurrentNext]_vars

----------------------------------------------------------------------------
(* Scheduler shared by goroutines: its methods take no lock *)

SchedulerMethods ==
    {"ShouldRun", "TakeBreak", "RecordAction", "GetActionCount", "ResetActionCount"}

\* the Scheduler configuration of the shared instance
SharedScheduleConfig ==
    [BusinessHoursOnly |-> FALSE, StartHour |-> 0, EndHour |-> 1, BreakAfter |-> 2,
     BreakDuration |-> 2, Weekdays |-> <<>>]

\* g calls method m and stands before its body
Enter(g, m) ==
    /\ pc[g] = Idle
    /\ CallExplored(m)
    /\ pc' = [pc EXCEPT ![g] = 1]
    /\ op' = [op EXCEPT ![g] = m]
    /\ UNCHANGED <<appVars, now, limitsVars, schedulerVars, histVars, mu, tmp, res,
                   recordedConsecutive>>

\* g returns to its caller
Return(g) ==
    /\ AtReturn(g)
    /\ op[g] \in SchedulerMethods
    /\ pc' = [pc EXCEPT ![g] = Idle]
    /\ op' = [op EXCEPT ![g] = NoRet]
    /\ tmp' = [tmp EXCEPT ![g] = 0]
    /\ res' = [res EXCEPT ![g] = NoRet]
    /\ actionsSinceBreak' = CASE op[g] = "RecordAction" -> actionsSinceBreak + 1
                              [] op[g] = "TakeBreak" -> 0
                              [] OTHER -> actionsSinceBreak
    /\ resetSinceBreak' = CASE op[g] = "ResetActionCount" -> TRUE
                            [] op[g] = "TakeBreak" -> FALSE
                            [] OTHER -> resetSinceBreak
    /\ UNCHANGED <<appVars, now, limitsVars, schedulerVars, lastOp, ret, limitsHist, mu,
                   recordedConsecutive>>

SchedulerConcurrentInit ==
    /\ now = 0
    /\ NoApp
    /\ NewScheduler
    /\ scheduleConfig = SharedScheduleConfig
    /\ NewLimits
    /\ config = SchedulerLimitsConfig
    /\ NoGoroutines
    /\ lastOp = "NewScheduler"
    /\ ret = NoRet
    /\ recorded = 0
    /\ freshReset = FALSE
    /\ actionsSinceBreak = 0
    /\ resetSinceBreak = FALSE

SchedulerConcurrentNext ==
    \/ \E g \in Goroutines, m \in SchedulerMethods : Enter(g, m)
    \/ \E g \in Goroutines : Load(g)
    \/ \E g \in Goroutines : Inc(g)
    \/ \E g \in Goroutines : Zero(g)
    \/ \E g \in Goroutines : Stamp(g)
    \/ \E g \in Goroutines : Result(g)
    \/ \E g \in Goroutines : Sleeping(g)
    \/ \E g \in Goroutines : Return(g)

SpecSchedulerConcurrent ==
    SchedulerConcurrentInit /\ [][SchedulerConcurrentNext]_vars

----------------------------------------------------------------------------
(* Checkpoint (package auth): classification of the current page *)

\* how many selectors resolve to an element on the pages explored
MaxMarkers == 2

\* strings.Contains and the package's own contains: substr occurs in s
contains(s, substr) ==
    /\ Len(s) >= Len(substr)
    /\ \E i \in 1 .. (Len(s) - Len(substr) + 1) :
           SubSeq(s, i, i + Len(substr) - 1) = substr

CaptchaSelectors ==
    <<"#captcha-internal", ".g-recaptcha", "[data-test-id='captcha']",
      "iframe[src*='recaptcha']", "iframe[src*='captcha']">>
TwoFASelectors ==
    <<"input[name='pin']", "input[id='pin']", "[data-test-id='2fa-input']",
      ".two-step-verification">>
VerificationSelectors ==
    <<".challenge-dialog", "[data-test-id='verification-challenge']",
      ".security-challenge", "#email-pin-challenge">>
VerificationPaths == <<"/checkpoint/challenge", "/checkpoint/lg/", "/challenge/">>
RestrictionSelectors ==
    <<".account-restricted", "[data-test-id='account-restricted']",
      ".restricted-account-notice">>
RestrictionKeywords ==
    <<"account has been restricted", "temporarily restricted", "violated our terms",
      "suspended">>
UnusualActivitySelectors == <<".unusual-activity", "[data-test-id='unusual-activity']">>
UnusualActivityKeywords == <<"unusual activity", "verify your identity">>

Range(seq) == {seq[i] : i \in 1 .. Len(seq)}

\* every selector Detect probes for a marker element
CheckpointSelectors ==
    Range(CaptchaSelectors) \cup Range(TwoFASelectors) \cup Range(VerificationSelectors)
        \cup Range(RestrictionSelectors) \cup Range(UnusualActivitySelectors)

\* page.Element(selector): the element the selector resolves to is "absent"
\* (err != nil), or present and "hidden" or "visible" (element.Visible())
ElementStates == {"absent", "hidden", "visible"}

PageURLs ==
    {"https://www.linkedin.com/feed/",
     "https://www.linkedin.com/checkpoint/lg/login-submit"}
PageTexts ==
    {"Welcome back", "Your account has been suspended",
     "Please verify your identity"}

\* the selectors that resolve to an element on some page explored: the first
\* and the last one of each predicate's list
MarkerSelectors ==
    {l[i] : i \in {1}, l \in {CaptchaSelectors, TwoFASelectors, VerificationSelectors,
                              RestrictionSelectors, UnusualActivitySelectors}}
        \cup {l[Len(l)] : l \in {CaptchaSelectors, TwoFASelectors, VerificationSelectors,
                                  RestrictionSelectors, UnusualActivitySelectors}}

\* the pages a Checkpoint is constructed on
CheckpointPages ==
    {[elements |-> e, body |-> b, url |-> u, text |-> t] :
        e \in {[sel \in CheckpointSelectors |->
                    IF sel \in DOMAIN m THEN m[sel] ELSE "absent"] :
                  m \in UNION {[S -> ElementStates \ {"absent"}] :
                                 S \in {T \in SUBSET MarkerSelectors :
                                           Cardinality(T) <= MaxMarkers}}},
        b \in {"absent", "visible"}, u \in PageURLs, t \in PageTexts}

\* the loop of hasCAPTCHA / has2FA / hasVerificationChallenge from selector i on:
\* true at the first selector whose element is found and visible
RECURSIVE FoundVisible(_, _)
FoundVisible(selectors, i) ==
    IF i > Len(selectors) THEN FALSE
    ELSE IF page.elements[selectors[i]] # "absent"
              /\ page.elements[selectors[i]] = "visible"
         THEN TRUE
         ELSE FoundVisible(selectors, i + 1)

\* the loop of hasAccountRestriction / hasUnusualActivity from selector i on:
\* true at the first selector whose element is found
RECURSIVE FoundAny(_, _)
FoundAny(selectors, i) ==
    IF i > Len(selectors) THEN FALSE
    ELSE IF page.elements[selectors[i]] # "absent" THEN TRUE
         ELSE FoundAny(selectors, i + 1)

\* the loop over keywords / paths: true at the first one s contains
RECURSIVE ContainsAny(_, _, _)
ContainsAny(s, words, i) ==
    IF i > Len(words) THEN FALSE
    ELSE IF contains(s, words[i]) THEN TRUE
         ELSE ContainsAny(s, words, i + 1)

hasCAPTCHA == FoundVisible(CaptchaSelectors, 1)

has2FA == FoundVisible(TwoFASelectors, 1)

hasVerificationChallenge ==
    \/ FoundVisible(VerificationSelectors, 1)
    \/ ContainsAny(page.url, VerificationPaths, 1)

hasAccountRestriction ==
    \/ FoundAny(RestrictionSelectors, 1)
    \/ page.body # "absent" /\ ContainsAny(page.text, RestrictionKeywords, 1)

hasUnusualActivity ==
    \/ FoundAny(UnusualActivitySelectors, 1)
    \/ page.body # "absent" /\ ContainsAny(page.text, UnusualActivityKeywords, 1)

CheckpointNone == "none"
CheckpointCAPTCHA == "captcha"
Checkpoint2FA == "2fa"
CheckpointVerification == "verification"
CheckpointRestricted == "restricted"

\* a Detect that probes for the 2FA prompt before the CAPTCHA
DetectRet_2FAFirst ==
    IF has2FA
    THEN [type |-> Checkpoint2FA, message |-> "Two-factor authentication required"]
    ELSE IF hasCAPTCHA
    THEN [type |-> CheckpointCAPTCHA,
          message |-> "CAPTCHA challenge detected - manual intervention required"]
    ELSE [type |-> CheckpointNone, message |-> ""]

\* what Detect returns on the current page
DetectRet ==
    IF hasCAPTCHA
    THEN [type |-> CheckpointCAPTCHA,
          message |-> "CAPTCHA challenge detected - manual intervention required"]
    ELSE IF has2FA
    THEN [type |-> Checkpoint2FA, message |-> "Two-factor authentication required"]
    ELSE IF hasVerificationChallenge
    THEN [type |-> CheckpointVerification, message |-> "Account verification required"]
    ELSE IF hasAccountRestriction
    THEN [type |-> CheckpointRestricted, message |-> "Account has been restricted"]
    ELSE IF hasUnusualActivity
    THEN [type |-> CheckpointVerification,
          message |-> "Unusual activity detected by LinkedIn"]
    ELSE [type |-> CheckpointNone, message |-> ""]

\* what a call on the Checkpoint cannot reach
outsideCheckpoint ==
    <<limitsVars, limitsHist, schedulerVars, schedulerHist, goVars, timingVars,
      mainVars, logged>>

Detect ==
    /\ lastOp' = "Detect"
    /\ ret' = DetectRet
    /\ UNCHANGED <<now, page>>
    /\ UNCHANGED outsideCheckpoint

WaitAndDetect ==
    /\ \E duration \in 1 .. 2 : Sleep(duration)
    /\ lastOp' = "WaitAndDetect"
    /\ ret' = DetectRet
    /\ UNCHANGED page
    /\ UNCHANGED outsideCheckpoint

IsBlocked ==
    /\ lastOp' = "IsBlocked"
    /\ ret' = (DetectRet.type # CheckpointNone)
    /\ UNCHANGED <<now, page>>
    /\ UNCHANGED outsideCheckpoint

\* NewCheckpoint(page) on any of the pages explored
NewCheckpoint == page \in CheckpointPages

\* no Limits is constructed
NoLimits ==
    /\ config = NoRet
    /\ connectionCount = 0
    /\ messageCount = 0
    /\ searchCount = 0
    /\ lastConnection = ZeroTime
    /\ lastMessage = ZeroTime
    /\ consecutiveCount = 0
    /\ lastReset = ZeroTime
    /\ recorded = 0
    /\ freshReset = FALSE

CheckpointInit ==
    /\ now = 0
    /\ NewCheckpoint
    /\ NoLimits
    /\ NoScheduler
    /\ NoGoroutines
    /\ NoTiming
    /\ NoMain
    /\ logged = {}
    /\ lastOp = "NewCheckpoint"
    /\ ret = NoRet

CheckpointNext ==
    \/ Detect
    \/ WaitAndDetect
    \/ IsBlocked

SpecCheckpoint == CheckpointInit /\ [][CheckpointNext]_vars

----------------------------------------------------------------------------
(* Parser (package search): profiles of a search-results page *)

\* cards matched by one container selector / anchors outside any card / length
\* of the list handed to a filter, on the pages and lists explored
MaxCards == 2
MaxLinks == 2
MaxProfiles == 3

\* card.Element / page.Elements found no element
NoElement == [found |-> FALSE]
NoErr == "nil"

\* strings.Index: 0-based position of the first occurrence of substr, -1 if none
Index(s, substr) ==
    IF contains(s, substr)
    THEN (CHOOSE i \in 1 .. (Len(s) - Len(substr) + 1) :
              /\ SubSeq(s, i, i + Len(substr) - 1) = substr
              /\ \A j \in 1 .. (i - 1) : SubSeq(s, j, j + Len(substr) - 1) # substr) - 1
    ELSE -1

IsSpace(c) == c \in {" ", "\n", "\t", "\r"}

RECURSIVE TrimLeft(_)
TrimLeft(s) ==
    IF Len(s) > 0 /\ IsSpace(SubSeq(s, 1, 1)) THEN TrimLeft(SubSeq(s, 2, Len(s))) ELSE s

RECURSIVE TrimRight(_)
TrimRight(s) ==
    IF Len(s) > 0 /\ IsSpace(SubSeq(s, Len(s), Len(s)))
    THEN TrimRight(SubSeq(s, 1, Len(s) - 1))
    ELSE s

\* strings.TrimSpace
TrimSpace(s) == TrimRight(TrimLeft(s))

\* strings.ReplaceAll for a non-empty old
RECURSIVE ReplaceAll(_, _, _)
ReplaceAll(s, old, new) ==
    IF Len(s) < Len(old) THEN s
    ELSE IF SubSeq(s, 1, Len(old)) = old
         THEN new \o ReplaceAll(SubSeq(s, Len(old) + 1, Len(s)), old, new)
         ELSE SubSeq(s, 1, 1) \o ReplaceAll(SubSeq(s, 2, Len(s)), old, new)

UpperCase == "ABCDEFGHIJKLMNOPQRSTUVWXYZ"
LowerCase == "abcdefghijklmnopqrstuvwxyz"

\* strings.ToLower on ASCII text
RECURSIVE ToLower(_)
ToLower(s) ==
    IF Len(s) = 0 THEN s
    ELSE LET c == SubSeq(s, 1, 1)
             k == Index(UpperCase, c)
         IN  (IF k >= 0 THEN SubSeq(LowerCase, k + 1, k + 1) ELSE c)
                 \o ToLower(SubSeq(s, 2, Len(s)))

\* cleanProfileURL: the URL up to its first "?"
cleanProfileURL(url) ==
    LET idx == Index(url, "?")
    IN  IF idx # -1 THEN SubSeq(url, 1, idx) ELSE url

JunkPhrases ==
    <<"View ", "'s profile", "Status is offline", "Status is online",
      "Status is reachable", "Open to work", "LinkedIn Member">>

\* strings.Split(name, "\n")[0]
FirstLine(name) ==
    LET idx == Index(name, "\n")
    IN  IF idx # -1 THEN SubSeq(name, 1, idx) ELSE name

RECURSIVE StripJunk(_, _)
StripJunk(name, i) ==
    IF i > Len(JunkPhrases) THEN name
    ELSE StripJunk(ReplaceAll(name, JunkPhrases[i], ""), i + 1)

RECURSIVE CollapseSpaces(_)
CollapseSpaces(name) ==
    IF contains(name, "  ") THEN CollapseSpaces(ReplaceAll(name, "  ", " ")) ELSE name

cleanName(name) ==
    TrimSpace(CollapseSpaces(StripJunk(TrimSpace(FirstLine(TrimSpace(name))), 1)))

ContainerSelectors ==
    <<"li.reusable-search__result-container", "div.entity-result",
      "li.reusable-search__result", ".search-results-container li",
      "ul.reusable-search__entity-result-list li">>
AppAwareLinkSelector == "a.app-aware-link[href*='/in/']"
GenericLinkSelector == "a[href*='/in/']"

\* an anchor element: its class, its href, the text of its child
\* span.entity-result__title-text (NoElement if it has none) and its own text
Anchor(appAware, href, title, text) ==
    [appAware |-> appAware, href |-> href, title |-> title, text |-> text]
Text(t) == [found |-> TRUE, text |-> t]

Anchors ==
    {Anchor(TRUE, "/in/ann?miniProfile=1", Text("Ann Lee\nView Ann Lee's profile"),
            "Ann Lee"),
     Anchor(TRUE, "/in/ann", NoElement, ""),
     Anchor(FALSE, "/in/bob", NoElement, " Bob  Ray "),
     Anchor(TRUE, "/company/acme/in/", NoElement, "Acme"),
     Anchor(TRUE, "?redirect=/in/eve", NoElement, "Eve"),
     Anchor(TRUE, "/in/li", NoElement, "LinkedIn Member"),
     Anchor(TRUE, "/jobs/", NoElement, "Jobs")}

\* a card: its anchors in document order and the texts of the elements that
\* parseProfileCard looks up inside it (NoElement where the lookup fails)
RichDetails ==
    [title |-> Text("Ann Lee\nView Ann Lee's profile"),
     altNames |-> <<Text("Ann Lee"), Text("Ann Lee"), Text("Ann Lee")>>,
     headline |-> Text(" Engineer at Acme "), location |-> Text("Berlin"),
     button |-> Text("Message"), degree |-> Text(" 1st "), badge |-> NoElement]
BareDetails ==
    [title |-> NoElement,
     altNames |-> <<NoElement, Text("LinkedIn Member"), Text("Bob")>>,
     headline |-> NoElement, location |-> NoElement,
     button |-> Text("Connect"), degree |-> NoElement, badge |-> Text("2nd")]
NamelessDetails ==
    [title |-> Text("Status is online"),
     altNames |-> <<NoElement, NoElement, NoElement>>,
     headline |-> NoElement, location |-> NoElement,
     button |-> NoElement, degree |-> NoElement, badge |-> NoElement]

SeqsUpTo(S, n) == UNION {[1 .. k -> S] : k \in 0 .. n}

Card(anchors, details) == [anchors |-> anchors, details |-> details]

Cards ==
    {Card(<<Anchor(TRUE, "/in/ann?miniProfile=1",
                   Text("Ann Lee\nView Ann Lee's profile"), "Ann Lee")>>, RichDetails),
     Card(<<Anchor(TRUE, "/jobs/", NoElement, "Jobs"),
            Anchor(TRUE, "/in/ann", NoElement, "")>>, BareDetails),
     Card(<<Anchor(FALSE, "/in/bob", NoElement, " Bob  Ray ")>>, BareDetails),
     Card(<<>>, BareDetails),
     Card(<<Anchor(TRUE, "?redirect=/in/eve", NoElement, "Eve")>>, BareDetails),
     Card(<<Anchor(TRUE, "/in/li", NoElement, "LinkedIn Member")>>, NamelessDetails)}

\* the search-results pages explored: cards under the second and the fourth
\* container selector, anchors outside the cards, and the selectors for which
\* page.Elements fails
ParserPages ==
    {[containers |-> [sel \in Range(ContainerSelectors) |->
                         CASE sel = ContainerSelectors[2] -> c2
                           [] sel = ContainerSelectors[4] -> c4
                           [] OTHER -> <<>>],
      anchors |-> a, broken |-> b] :
        c2 \in SeqsUpTo(Cards, MaxCards),
        c4 \in SeqsUpTo({c \in Cards : c.details = RichDetails \/ c.anchors = <<>>}, 1),
        a \in SeqsUpTo({x \in Anchors : x.text \in {"Ann Lee", "Acme", "Jobs"}}, 1),
        b \in {{}}}
    \cup
    {[containers |-> [sel \in Range(ContainerSelectors) |->
                         IF sel = ContainerSelectors[2] THEN c2 ELSE <<>>],
      anchors |-> a, broken |-> b] :
        c2 \in SeqsUpTo({c \in Cards : c.anchors = <<>>}, 1),
        a \in SeqsUpTo(Anchors, MaxLinks),
        b \in {{}, {AppAwareLinkSelector}, {AppAwareLinkSelector, GenericLinkSelector},
               {ContainerSelectors[2]}}}

RECURSIVE Flatten(_)
Flatten(seqs) == IF seqs = <<>> THEN <<>> ELSE Head(seqs) \o Flatten(Tail(seqs))

\* the anchors of the page in document order
PageAnchors ==
    Flatten([i \in 1 .. Len(ContainerSelectors) |->
                Flatten([j \in 1 .. Len(page.containers[ContainerSelectors[i]]) |->
                            page.containers[ContainerSelectors[i]][j].anchors])])
        \o page.anchors

IsAppAwareProfileLink(a) == a.appAware /\ contains(a.href, "/in/")
IsProfileLink(a) == contains(a.href, "/in/")

\* page.Elements(selector) / card.Element(selector)
Elements(selector) ==
    CASE selector \in page.broken -> [err |-> "error", list |-> <<>>]
      [] selector \in Range(ContainerSelectors) ->
             [err |-> NoErr, list |-> page.containers[selector]]
      [] selector = AppAwareLinkSelector ->
             [err |-> NoErr, list |-> SelectSeq(PageAnchors, IsAppAwareProfileLink)]
      [] selector = GenericLinkSelector ->
             [err |-> NoErr, list |-> SelectSeq(PageAnchors, IsProfileLink)]

ProfileResult(url, name, headline, location, connected, degree) ==
    [ProfileURL |-> url, Name |-> name, Headline |-> headline, Location |-> location,
     ImageURL |-> "", IsConnected |-> connected, ConnectionDegree |-> degree]

\* the loop over the alternative name selectors from selector i on
RECURSIVE AltName(_, _)
AltName(card, i) ==
    IF i > Len(card.details.altNames) THEN ""
    ELSE IF card.details.altNames[i].found
              /\ cleanName(card.details.altNames[i].text) # ""
         THEN cleanName(card.details.altNames[i].text)
         ELSE AltName(card, i + 1)

checkConnectionStatus(card) ==
    /\ card.details.button.found
    /\ contains(ToLower(card.details.button.text), "message")

getConnectionDegree(card) ==
    IF card.details.degree.found THEN TrimSpace(card.details.degree.text)
    ELSE IF card.details.badge.found THEN TrimSpace(card.details.badge.text)
    ELSE "Unknown"

\* parseProfileCard: [err, profile]
parseProfileCard(card) ==
    LET appAware == SelectSeq(card.anchors, IsAppAwareProfileLink)
        generic == SelectSeq(card.anchors, IsProfileLink)
    IN  IF appAware = <<>> /\ generic = <<>>
        THEN [err |-> "no profile link found"]
        ELSE LET link == IF appAware # <<>> THEN Head(appAware) ELSE Head(generic)
                 name == IF card.details.title.found
                         THEN cleanName(card.details.title.text)
                         ELSE ""
             IN  [err |-> NoErr,
                  profile |->
                      ProfileResult(
                          cleanProfileURL(link.href),
                          IF name = "" THEN AltName(card, 1) ELSE name,
                          IF card.details.headline.found
                          THEN TrimSpace(card.details.headline.text) ELSE "",
                          IF card.details.location.found
                          THEN TrimSpace(card.details.location.text) ELSE "",
                          checkConnectionStatus(card),
                          getConnectionDegree(card))]

\* the selector loop of parseWithContainers from selector i on: the index of the
\* first selector with a match, 0 if no selector has one
RECURSIVE UsedSelector(_)
UsedSelector(i) ==
    IF i > Len(ContainerSelectors) THEN 0
    ELSE IF Elements(ContainerSelectors[i]).err = NoErr
              /\ Len(Elements(ContainerSelectors[i]).list) > 0
         THEN i
         ELSE UsedSelector(i + 1)

\* a parseWithContainers that stops at the first card without a profile link
RECURSIVE ParseCards_AbortOnSkip(_, _)
ParseCards_AbortOnSkip(results, i) ==
    IF i > Len(results) THEN <<>>
    ELSE LET r == parseProfileCard(results[i])
         IN  IF r.err # NoErr THEN <<>>
             ELSE IF r.profile.ProfileURL # ""
             THEN <<r.profile>> \o ParseCards_AbortOnSkip(results, i + 1)
             ELSE ParseCards_AbortOnSkip(results, i + 1)

\* the card loop of parseWithContainers from card i on
RECURSIVE ParseCards(_, _)
ParseCards(results, i) ==
    IF i > Len(results) THEN <<>>
    ELSE LET r == parseProfileCard(results[i])
         IN  IF r.err # NoErr THEN ParseCards(results, i + 1)
             ELSE IF r.profile.ProfileURL # ""
             THEN <<r.profile>> \o ParseCards(results, i + 1)
             ELSE ParseCards(results, i + 1)

\* parseWithContainers: [profiles, err] and the selector its log reports
parseWithContainersRet ==
    LET used == UsedSelector(1)
    IN  IF used = 0
        THEN [profiles |-> <<>>, err |-> "no containers found", selector |-> ""]
        ELSE [profiles |-> ParseCards(Elements(ContainerSelectors[used]).list, 1),
              err |-> NoErr, selector |-> ContainerSelectors[used]]

\* the link loop of parseDirectLinks from link i on, with the profiles and the
\* seen set built so far
RECURSIVE ScanLinks(_, _, _, _)
ScanLinks(links, i, found, seen) ==
    IF i > Len(links) THEN found
    ELSE LET url == cleanProfileURL(links[i].href)
             spanName == IF links[i].title.found THEN links[i].title.text ELSE ""
             name == cleanName(IF spanName = "" THEN links[i].text ELSE spanName)
         IN  IF ~contains(url, "/in/") \/ url \in seen
             THEN ScanLinks(links, i + 1, found, seen)
             ELSE IF contains(url, "/company/") \/ contains(url, "/school/")
             THEN ScanLinks(links, i + 1, found, seen)
             ELSE IF name # ""
             THEN ScanLinks(links, i + 1,
                            Append(found, ProfileResult(url, name, "", "", FALSE, "")),
                            seen \cup {url})
             ELSE ScanLinks(links, i + 1, found, seen \cup {url})

\* parseDirectLinks: [profiles, err]
parseDirectLinksRet ==
    LET first == Elements(AppAwareLinkSelector)
        second == Elements(GenericLinkSelector)
    IN  IF first.err # NoErr /\ second.err # NoErr
        THEN [profiles |-> <<>>, err |-> "failed to find any profile links"]
        ELSE [profiles |-> ScanLinks(IF first.err = NoErr THEN first.list
                                     ELSE second.list, 1, <<>>, {}),
              err |-> NoErr]

\* a ParseResults that always scans the links
ParseResultsRet_LinksOnly == parseDirectLinksRet

\* ParseResults: what it returns and the strategy its log reports
ParseResultsRet ==
    LET c == parseWithContainersRet
    IN  IF c.err = NoErr /\ Len(c.profiles) > 0
        THEN [profiles |-> c.profiles, err |-> NoErr]
        ELSE parseDirectLinksRet

ParseResultsLog ==
    LET c == parseWithContainersRet
    IN  (IF c.err = NoErr THEN {<<"found containers", c.selector>>} ELSE {})
        \cup (IF c.err = NoErr /\ Len(c.profiles) > 0
              THEN {<<"container parsing successful", "">>}
              ELSE {<<"container parsing failed, using direct link strategy", "">>})

\* FilterConnectable
RECURSIVE FilterConnectableRet(_)
FilterConnectableRet(list) ==
    IF list = <<>> THEN <<>>
    ELSE IF ~Head(list).IsConnected
         THEN <<Head(list)>> \o FilterConnectableRet(Tail(list))
         ELSE FilterConnectableRet(Tail(list))

\* a DeduplicateProfiles that keeps the last occurrence of each URL
RECURSIVE Unique_KeepLast(_, _, _)
Unique_KeepLast(list, i, seen) ==
    IF i > Len(list) THEN <<>>
    ELSE IF \E j \in (i + 1) .. Len(list) : list[j].ProfileURL = list[i].ProfileURL
         THEN Unique_KeepLast(list, i + 1, seen)
         ELSE <<list[i]>> \o Unique_KeepLast(list, i + 1, seen)

\* the loop of DeduplicateProfiles from profile i on, with the seen set
RECURSIVE Unique(_, _, _)
Unique(list, i, seen) ==
    IF i > Len(list) THEN <<>>
    ELSE IF list[i].ProfileURL \notin seen
         THEN <<list[i]>> \o Unique(list, i + 1, seen \cup {list[i].ProfileURL})
         ELSE Unique(list, i + 1, seen)

DeduplicateProfilesRet(list) == Unique(list, 1, {})

\* what a call on the Parser cannot reach
outsideParser ==
    <<now, limitsVars, limitsHist, schedulerVars, schedulerHist, goVars, timingVars,
      main>>

ParseResults ==
    /\ lastOp' = "ParseResults"
    /\ ret' = ParseResultsRet
    /\ logged' = ParseResultsLog
    /\ UNCHANGED <<page, profiles>>
    /\ UNCHANGED outsideParser

ParseWithContainers ==
    /\ lastOp' = "parseWithContainers"
    /\ ret' = [profiles |-> parseWithContainersRet.profiles,
               err |-> parseWithContainersRet.err]
    /\ logged' = IF parseWithContainersRet.err = NoErr
                 THEN {<<"found containers", parseWithContainersRet.selector>>}
                 ELSE {}
    /\ UNCHANGED <<page, profiles>>
    /\ UNCHANGED outsideParser

ParseDirectLinks ==
    /\ lastOp' = "parseDirectLinks"
    /\ ret' = parseDirectLinksRet
    /\ logged' = {<<"using direct link parsing strategy", "">>}
    /\ UNCHANGED <<page, profiles>>
    /\ UNCHANGED outsideParser

\* the caller passes its list to FilterConnectable
FilterConnectable ==
    /\ lastOp' = "FilterConnectable"
    /\ ret' = FilterConnectableRet(profiles)
    /\ logged' = {<<"filtered connectable profiles", "">>}
    /\ UNCHANGED <<page, profiles>>
    /\ UNCHANGED outsideParser

\* the caller passes its list to DeduplicateProfiles
DeduplicateProfiles ==
    /\ lastOp' = "DeduplicateProfiles"
    /\ ret' = DeduplicateProfilesRet(profiles)
    /\ logged' = IF Len(DeduplicateProfilesRet(profiles)) < Len(profiles)
                 THEN {<<"removed duplicates", "">>}
                 ELSE {}
    /\ UNCHANGED <<page, profiles>>
    /\ UNCHANGED outsideParser

\* the caller keeps the list a filter returned: profiles = p.Filter(profiles)
KeepFiltered ==
    /\ lastOp \in {"FilterConnectable", "DeduplicateProfiles"}
    /\ profiles # ret
    /\ profiles' = ret
    /\ lastOp' = "KeepFiltered"
    /\ UNCHANGED <<ret, logged, page>>
    /\ UNCHANGED outsideParser

NewParser == page \in ParserPages

ParserInit ==
    /\ now = 0
    /\ NewParser
    /\ NoLimits
    /\ NoScheduler
    /\ NoGoroutines
    /\ NoTiming
    /\ main = NoRet
    /\ profiles = <<>>
    /\ logged = {}
    /\ lastOp = "NewParser"
    /\ ret = NoRet

ParserNext ==
    \/ ParseResults
    \/ ParseWithContainers
    \/ ParseDirectLinks

SpecParser == ParserInit /\ [][ParserNext]_vars

\* the profile lists handed to the filters
FilterProfiles ==
    {ProfileResult(url, name, "", "", connected, "") :
        url \in {"/in/ann", "/in/bob"}, name \in {"Ann", "A. Lee"},
        connected \in BOOLEAN}

FiltersInit ==
    /\ now = 0
    /\ page = NoRet
    /\ NoLimits
    /\ NoScheduler
    /\ NoGoroutines
    /\ NoTiming
    /\ main = NoRet
    /\ profiles \in SeqsUpTo(FilterProfiles, MaxProfiles)
    /\ logged = {}
    /\ lastOp = "NewParser"
    /\ ret = NoRet

FiltersNext ==
    \/ FilterConnectable
    \/ DeduplicateProfiles
    \/ KeepFiltered

SpecFilters == FiltersInit /\ [][FiltersNext]_vars

----------------------------------------------------------------------------
(* Timing (package stealth): delays in milliseconds *)

\* ActionDelay / IncrementAction calls explored on one controller
MaxDelays == 3

\* time.Duration, counted in half milliseconds
Millisecond == 2
Second == 1000 * Millisecond

\* config.TimingConfig; FatigueMultiplier is the float64 num / den
TimingConfigs ==
    [MinActionDelay : {500 * Millisecond}, MaxActionDelay : {2000 * Millisecond},
     FatigueMultiplier : {[num |-> 3, den |-> 2], [num |-> 2, den |-> 1]},
     FatigueAfter : {1, 2}]

\* time.Duration.Milliseconds
Milliseconds(d) == d \div Millisecond

\* the values math.Exp(mu + sigma*z) explored, in milliseconds: the two tails,
\* the bounds and the middle
LogNormalValues(minMs, maxMs) == {0, minMs, (minMs + maxMs) \div 2, maxMs, maxMs + 1}

\* the two clamping tests of logNormalDelay, in their order
Clamp(value, minMs, maxMs) ==
    LET raised == IF value < minMs THEN minMs ELSE value
    IN  IF raised > maxMs THEN maxMs ELSE raised

\* logNormalDelay(min, max): time.Duration(value) * time.Millisecond for the
\* clamped value
logNormalDelay(min, max) ==
    {Clamp(value, Milliseconds(min), Milliseconds(max)) * Millisecond :
        value \in LogNormalValues(Milliseconds(min), Milliseconds(max))}

\* the bounds logNormalDelay is explored with on its own
DelayBounds == 1 .. Millisecond + 1

\* time.Duration(float64(delay) * multiplier)
Scaled(delay, multiplier) == (delay * multiplier.num) \div multiplier.den

\* randomFloat(0.8, 1.2) in percent, the draws explored
Variances == {80, 100, 120}
WordCounts == {0, 35, 200}

\* ReadingTime: wordCount / 3.5 seconds times the variance, clamped to [2s, 30s]
ReadingTimeRet(wordCount, variance) ==
    LET ms == (wordCount * variance * 100) \div 35
    IN  IF ms * Millisecond < 2 * Second THEN 2 * Second
        ELSE IF ms * Millisecond > 30 * Second THEN 30 * Second
        ELSE ms * Millisecond

\* what a call on the Timing controller cannot reach
outsideTiming ==
    <<now, limitsVars, limitsHist, schedulerVars, schedulerHist, goVars, page,
      mainVars, logged>>

\* the fields of the Timing controller
timingConfig == timing.config
timingActionCount == timing.actionCount
fatigueActive == timing.fatigueActive
sampled == timing.sampled

\* NewTiming(cfg)
NewTiming(cfg) ==
    [config |-> cfg, actionCount |-> 0, fatigueActive |-> FALSE, sampled |-> 0,
     wasReset |-> FALSE, sinceReset |-> <<>>]

\* an ActionDelay that never applies the fatigue multiplier
ActionDelay_NoFatigue ==
    /\ timingActionCount < MaxDelays
    /\ \E delay \in logNormalDelay(timingConfig.MinActionDelay,
                                   timingConfig.MaxActionDelay) :
           /\ timing' = [timing EXCEPT !.sampled = delay,
                                       !.actionCount = timingActionCount + 1,
                                       !.sinceReset = Append(@, "ActionDelay")]
           /\ ret' = delay
    /\ lastOp' = "ActionDelay"
    /\ UNCHANGED outsideTiming

ActionDelay ==
    /\ timingActionCount < MaxDelays
    /\ \E delay \in logNormalDelay(timingConfig.MinActionDelay,
                                   timingConfig.MaxActionDelay) :
           /\ timing' = [timing EXCEPT
                            !.sampled = delay,
                            !.fatigueActive =
                                IF timingActionCount >= timingConfig.FatigueAfter
                                THEN TRUE
                                ELSE fatigueActive,
                            !.actionCount = timingActionCount + 1,
                            !.sinceReset = Append(@, "ActionDelay")]
           /\ ret' = IF timingActionCount >= timingConfig.FatigueAfter
                     THEN Scaled(delay, timingConfig.FatigueMultiplier)
                     ELSE delay
    /\ lastOp' = "ActionDelay"
    /\ UNCHANGED outsideTiming

\* a delay method that returns logNormalDelay(min, max) and writes no field
BoundedDelay(name, min, max) ==
    /\ \E delay \in logNormalDelay(min, max) :
           /\ timing' = [timing EXCEPT !.sampled = delay]
           /\ ret' = delay
    /\ lastOp' = name
    /\ UNCHANGED outsideTiming

PageLoadDelay == BoundedDelay("PageLoadDelay", 1 * Second, 3 * Second)

ShortPause == BoundedDelay("ShortPause", 200 * Millisecond, 800 * Millisecond)

MediumPause == BoundedDelay("MediumPause", 1 * Second, 3 * Second)

LongPause == BoundedDelay("LongPause", 3 * Second, 8 * Second)

ThinkingDelay == BoundedDelay("ThinkingDelay", 1 * Second, 5 * Second)

ReadingTime ==
    /\ \E wordCount \in WordCounts, variance \in Variances :
           /\ timing' = [timing EXCEPT !.sampled = ReadingTimeRet(wordCount, variance)]
           /\ ret' = ReadingTimeRet(wordCount, variance)
    /\ lastOp' = "ReadingTime"
    /\ UNCHANGED outsideTiming

\* a ResetFatigue that leaves the counter
ResetFatigue_KeepCount ==
    /\ timing' = [timing EXCEPT !.fatigueActive = FALSE, !.wasReset = TRUE,
                                !.sinceReset = <<>>]
    /\ lastOp' = "ResetFatigue"
    /\ ret' = NoRet
    /\ UNCHANGED outsideTiming

ResetFatigue ==
    /\ timing' = [timing EXCEPT !.actionCount = 0, !.fatigueActive = FALSE,
                                !.wasReset = TRUE, !.sinceReset = <<>>]
    /\ lastOp' = "ResetFatigue"
    /\ ret' = NoRet
    /\ UNCHANGED outsideTiming

IncrementAction ==
    /\ timingActionCount < MaxDelays
    /\ timing' = [timing EXCEPT !.actionCount = timingActionCount + 1,
                                !.sinceReset = Append(@, "IncrementAction")]
    /\ lastOp' = "IncrementAction"
    /\ ret' = NoRet
    /\ UNCHANGED outsideTiming

\* logNormalDelay(min, max) on bounds of its own
LogNormalDelay ==
    /\ \E min \in DelayBounds, max \in DelayBounds :
           /\ min <= max
           /\ \E delay \in logNormalDelay(min, max) :
                  ret' = [min |-> min, max |-> max, delay |-> delay]
    /\ lastOp' = "logNormalDelay"
    /\ UNCHANGED timingVars
    /\ UNCHANGED outsideTiming

\* Timing.GetActionCount
TimingGetActionCount ==
    /\ lastOp' = "Timing.GetActionCount"
    /\ ret' = timingActionCount
    /\ UNCHANGED timingVars
    /\ UNCHANGED outsideTiming

IsFatigued ==
    /\ lastOp' = "IsFatigued"
    /\ ret' = fatigueActive
    /\ UNCHANGED timingVars
    /\ UNCHANGED outsideTiming

\* Wait sleeps and touches no field of the controller
Wait ==
    /\ lastOp' = "Wait"
    /\ ret' = NoRet
    /\ UNCHANGED timingVars
    /\ UNCHANGED outsideTiming

TimingInit ==
    /\ now = 0
    /\ \E cfg \in TimingConfigs : timing = NewTiming(cfg)
    /\ NoLimits
    /\ NoScheduler
    /\ NoGoroutines
    /\ NoPage
    /\ NoMain
    /\ logged = {}
    /\ lastOp = "NewTiming"
    /\ ret = NoRet

TimingNext ==
    \/ ActionDelay
    \/ PageLoadDelay
    \/ ShortPause
    \/ MediumPause
    \/ LongPause
    \/ ReadingTime
    \/ ThinkingDelay
    \/ LogNormalDelay
    \/ ResetFatigue
    \/ IncrementAction
    \/ TimingGetActionCount
    \/ IsFatigued
    \/ Wait

SpecTiming == TimingInit /\ [][TimingNext]_vars

----------------------------------------------------------------------------
(* main: the orchestration of one dry run *)

DRY_RUN_MODE == TRUE
MAX_PROFILE_VISITS == 2

\* the construction steps of main whose failure ends the run
StartupFailures == {"config", "logger", "store", "browser", "fingerprint", "context"}

\* proto.NetworkCookie: its name and whether its expiry has passed
CookieNames == {"li_at", "JSESSIONID", "lang"}
CookieJars == SUBSET [name : CookieNames, expired : BOOLEAN]

\* what store.GetSession yields: nothing (found is FALSE), or a stored session
\* whose JSON may fail to unmarshal or whose ExpiresAt may have passed
SavedSessions ==
    {s \in [found : BOOLEAN, cookies : CookieJars, expired : BOOLEAN,
            corrupt : BOOLEAN] :
        ~s.found => (s.cookies = {} /\ ~s.expired /\ ~s.corrupt)}

\* Session.IsValid
SessionIsValid(cookies) ==
    /\ cookies # {}
    /\ ~\E c \in cookies : c.name \in {"li_at", "JSESSIONID"} /\ c.expired

\* Session.HasAuthCookie
HasAuthCookie(cookies) == \E c \in cookies : c.name = "li_at"

\* Session.cookies after main has tried to load the saved session: FromJSON
\* stores the cookies before it tests ExpiresAt
SessionCookies(saved) ==
    IF ~saved.found \/ saved.corrupt THEN {} ELSE saved.cookies

\* the page of a fresh browser context
BlankPage ==
    [elements |-> [sel \in CheckpointSelectors |-> "absent"], body |-> "visible",
     url |-> "about:blank", text |-> ""]

\* the pages the browser may show once the login step is over: one marker at most
LandingPages ==
    {p \in CheckpointPages :
        Cardinality({sel \in CheckpointSelectors : p.elements[sel] # "absent"}) <= 1}

\* Login.detectErrors finds none of its challenge elements
NoLoginError(p) ==
    /\ p.elements["#captcha-internal"] = "absent"
    /\ p.elements["input[name='pin']"] = "absent"
    /\ p.elements[".challenge-dialog"] = "absent"

\* the search page before its results are loaded
EmptyResultsPage ==
    [containers |-> [sel \in Range(ContainerSelectors) |-> <<>>], anchors |-> <<>>,
     broken |-> {}]

\* the result pages main parses: cards only, or loose links only
ResultPages ==
    {p \in ParserPages :
        /\ p.broken = {}
        /\ p.containers[ContainerSelectors[4]] = <<>>
        /\ p.anchors = <<>> \/ p.containers[ContainerSelectors[2]] = <<>>}

\* a profile page as VisitProfile meets it: whether Navigate succeeds, whether
\* the window bounds can be read, the control findConnectButton returns, whether
\* its Shape has a quad and whether Mouse.MoveTo succeeds
ProfilePages ==
    {p \in [navigable : BOOLEAN, window : BOOLEAN,
            button : {"none", "Connect", "Message"}, shape : BOOLEAN,
            mouse : BOOLEAN] :
        /\ ~p.navigable => (p.window /\ p.button = "none" /\ p.shape /\ p.mouse)
        /\ ~p.window => (p.button = "none" /\ p.shape /\ p.mouse)
        /\ p.button = "none" => (p.shape /\ p.mouse)
        /\ ~p.shape => p.mouse}

SiteAction(verb, control, url) == [verb |-> verb, control |-> control, url |-> url]

LoginURL == "https://www.linkedin.com/login"
SearchURL == "https://www.linkedin.com/search/results/people/"

\* Login.Execute up to the click on the submit button
LoginForm ==
    {SiteAction("navigate", "page", LoginURL),
     SiteAction("type", "#username", LoginURL),
     SiteAction("click", "#password", LoginURL),
     SiteAction("type", "#password", LoginURL),
     SiteAction("click", "button[type='submit']", LoginURL)}

\* a VisitProfile that clicks the button it has found
ConnectIntent_Click(button, url) ==
    {SiteAction("hover", button, url), SiteAction("click", button, url)}

\* what VisitProfile does with the button it has found and reached
ConnectIntent(button, url) == {SiteAction("hover", button, url)}

MessageSkipped == "skipped"
MessagePending == "pending"
FollowUpTemplate == "follow_up_1"

NewMessageRecord(profileURL, template, status) ==
    [ProfileURL |-> profileURL, Template |-> template, Status |-> status]

Min(a, b) == IF a < b THEN a ELSE b

\* the locals of main and what the run has done so far
mainPc == main.pc
exitStatus == main.exitStatus
visitIndex == main.visitIndex
executed == main.executed
detected == main.detected
siteActions == main.siteActions
messageRecords == main.messageRecords

\* visitCount of main
visitCount == Min(MAX_PROFILE_VISITS, Len(profiles))

\* what main cannot reach
outsideMain == <<now, limitsVars, schedulerVars, histVars, goVars>>

\* os.Exit(status), also at the end of logger.Fatal
Exit(m, status) == [m EXCEPT !.pc = "exited", !.exitStatus = status]

\* the end of one iteration of the visit loop
NextIteration(m) ==
    [m EXCEPT !.visitIndex = @ + 1,
              !.pc = IF m.visitIndex + 1 < visitCount THEN "visit" ELSE "finish"]

\* main goes on at the statement target, having completed step
Done(m, step, target) == [m EXCEPT !.executed = Append(@, step), !.pc = target]

\* the run performs acts on the site
Acted(m, acts) == [m EXCEPT !.siteActions = @ \cup acts]

\* config, logger, store, browser, fingerprint, context
MainStartup ==
    /\ mainPc = "start"
    /\ \E failure \in StartupFailures \cup {NoErr} :
           IF failure = NoErr
           THEN /\ main' = Done(main, "Startup", "session")
                /\ page' = BlankPage
                /\ UNCHANGED logged
           ELSE /\ main' = Exit(main, 1)
                /\ logged' = logged \cup {<<"startup failed", failure>>}
                /\ UNCHANGED page
    /\ UNCHANGED <<profiles, timingVars>>
    /\ UNCHANGED outsideMain

\* FromJSON, LoadCookies and the test that decides on the login, for the
\* session store.GetSession has returned
LoadSession(saved) ==
    LET cookies == SessionCookies(saved)
        loadFailed == saved.found /\ (saved.corrupt \/ saved.expired)
        next == IF ~SessionIsValid(cookies) \/ ~HasAuthCookie(cookies)
                THEN "login"
                ELSE "detect"
    IN  /\ main' = IF saved.found /\ ~loadFailed /\ SessionIsValid(cookies)
                   THEN Done(main, "LoadCookies", next)
                   ELSE [main EXCEPT !.pc = next]
        /\ logged' = IF loadFailed
                     THEN logged \cup {<<"failed to load session, will login", "">>}
                     ELSE logged

\* store.GetSession with any content of the sessions table, then LoadSession
MainLoadSession ==
    /\ mainPc = "session"
    /\ \E saved \in SavedSessions : LoadSession(saved)
    /\ UNCHANGED <<profiles, page, timingVars>>
    /\ UNCHANGED outsideMain

\* SQLiteStore.SaveSession: insert, or update the row of that session_id
SaveSession(store, sessionID, cookies) ==
    {r \in store : r.id # sessionID} \cup {[id |-> sessionID, cookies |-> cookies]}

\* the run m once store.SaveSession has written the cookies; with saves FALSE
\* the write is not followed (ctx.GetCookies failed, or the sessions table is
\* left to the environment)
Saved(m, saves, cookies) ==
    IF saves THEN [m EXCEPT !.store = SaveSession(@, m.unix, cookies)] ELSE m

\* Login.Execute and the saving of the session
LoginStep(saves, cookies) ==
    \/ \* Navigate fails, or an input of the form is missing
       /\ main' = Exit(Acted(main, {SiteAction("navigate", "page", LoginURL)}), 1)
       /\ logged' = logged \cup {<<"login failed", "">>}
       /\ UNCHANGED page
    \/ \* already logged in
       /\ \E p \in LandingPages : page' = p
       /\ main' = Saved(Done(Acted(main, {SiteAction("navigate", "page", LoginURL)}),
                             "Login", "detect"), saves, cookies)
       /\ UNCHANGED logged
    \/ \* the form is submitted and the login is rejected
       /\ main' = Exit(Acted(main, LoginForm), 1)
       /\ logged' = logged \cup {<<"login failed", "">>}
       /\ UNCHANGED page
    \/ \* the form is submitted and the login succeeds
       /\ \E p \in LandingPages : NoLoginError(p) /\ page' = p
       /\ main' = Saved(Done(Acted(main, LoginForm), "Login", "detect"), saves, cookies)
       /\ UNCHANGED logged

\* the login of a run whose sessions table is not followed
MainLogin ==
    /\ mainPc = "login"
    /\ LoginStep(FALSE, {})
    /\ UNCHANGED <<profiles, timingVars>>
    /\ UNCHANGED outsideMain

\* a checkpoint step that goes on whatever Detect returns
MainDetect_Continue ==
    /\ mainPc = "detect"
    /\ main' = [Done(main, "Detect", "search") EXCEPT !.detected = DetectRet.type]
    /\ logged' = IF DetectRet.type # CheckpointNone
                 THEN logged \cup {<<"checkpoint detected", DetectRet.type>>}
                 ELSE logged
    /\ \E cfg \in TimingConfigs : timing' = NewTiming(cfg)
    /\ UNCHANGED <<page, profiles>>
    /\ UNCHANGED outsideMain

\* NewCheckpoint, Detect, and the construction of the components of the dry run
MainDetect ==
    /\ mainPc = "detect"
    /\ IF DetectRet.type # CheckpointNone
       THEN /\ main' = Exit([Done(main, "Detect", "detect")
                                EXCEPT !.detected = DetectRet.type], 1)
            /\ logged' = logged \cup {<<"checkpoint detected", DetectRet.type>>}
            /\ UNCHANGED timingVars
       ELSE /\ main' = [Done(main, "Detect", "search")
                           EXCEPT !.detected = DetectRet.type]
            /\ \E cfg \in TimingConfigs : timing' = NewTiming(cfg)
            /\ UNCHANGED logged
    /\ UNCHANGED <<page, profiles>>
    /\ UNCHANGED outsideMain

\* Search.ExecuteSearch
MainExecuteSearch ==
    /\ mainPc = "search"
    /\ LET m == Acted(main, {SiteAction("navigate", "page", SearchURL)})
       IN  \/ /\ main' = Exit(m, 1)
              /\ logged' = logged \cup {<<"search failed", "">>}
              /\ UNCHANGED page
           \/ /\ main' = Done(m, "ExecuteSearch", "scroll")
              /\ page' = EmptyResultsPage
              /\ UNCHANGED logged
    /\ UNCHANGED <<profiles, timingVars>>
    /\ UNCHANGED outsideMain

\* the pause and the two ScrollDown calls that load the results
MainScrollDown ==
    /\ mainPc = "scroll"
    /\ \E p \in ResultPages : page' = p
    /\ main' = Done(Acted(main, {SiteAction("scroll", "page", SearchURL)}),
                    "ScrollDown", "parse")
    /\ UNCHANGED <<profiles, logged, timingVars>>
    /\ UNCHANGED outsideMain

\* a main that treats an empty list of profiles as a failure
MainParseResults_ExitFailure ==
    /\ mainPc = "parse"
    /\ profiles' = ParseResultsRet.profiles
    /\ IF Len(ParseResultsRet.profiles) = 0
       THEN /\ main' = Exit(Done(main, "ParseResults", "parse"), 1)
            /\ logged' = logged \cup {<<"No profiles extracted - check selectors", "">>}
       ELSE /\ main' = Done(main, "ParseResults", "visit")
            /\ UNCHANGED logged
    /\ UNCHANGED <<page, timingVars>>
    /\ UNCHANGED outsideMain

\* Parser.ParseResults and the exit on an empty list
MainParseResults ==
    /\ mainPc = "parse"
    /\ profiles' = ParseResultsRet.profiles
    /\ IF Len(ParseResultsRet.profiles) = 0
       THEN /\ main' = Exit(Done(main, "ParseResults", "parse"), 0)
            /\ logged' = logged \cup {<<"No profiles extracted - check selectors", "">>}
       ELSE /\ main' = Done(main, "ParseResults", "visit")
            /\ UNCHANGED logged
    /\ UNCHANGED <<page, timingVars>>
    /\ UNCHANGED outsideMain

\* DryRun.VisitProfile on profiles[i], and main's continue when it fails
MainVisitProfile ==
    /\ mainPc = "visit"
    /\ LET url == profiles[visitIndex + 1].ProfileURL
           m == Done(main, "VisitProfile", "visit")
       IN  \E p \in ProfilePages :
               /\ page' = p
               /\ CASE ~p.navigable ->
                           /\ main' = NextIteration(
                                          Acted(m, {SiteAction("navigate", "page", url)}))
                           /\ logged' = logged \cup {<<"DRY_RUN visit failed", url>>}
                    [] p.navigable /\ ~p.window ->
                           \* MustGetWindow panics
                           /\ main' = Exit(Acted(m, {SiteAction("navigate", "page", url),
                                                     SiteAction("scroll", "page", url)}),
                                           2)
                           /\ UNCHANGED logged
                    [] OTHER ->
                           LET reached == p.button # "none" /\ p.shape /\ p.mouse
                               visited ==
                                   Acted(m, {SiteAction("navigate", "page", url),
                                             SiteAction("scroll", "page", url)}
                                            \cup (IF p.mouse
                                                  THEN {SiteAction("move", "page", url)}
                                                  ELSE {})
                                            \cup (IF reached
                                                  THEN ConnectIntent(p.button, url)
                                                  ELSE {}))
                           IN  /\ main' = IF visitIndex = 0
                                          THEN [visited EXCEPT !.pc = "message"]
                                          ELSE IF visitIndex < visitCount - 1
                                          THEN [visited EXCEPT !.pc = "wait"]
                                          ELSE NextIteration(visited)
                               /\ logged' = logged
                                      \cup (IF reached
                                            THEN {<<"DRY_RUN would_click", url>>}
                                            ELSE {})
    /\ UNCHANGED <<profiles, timingVars>>
    /\ UNCHANGED outsideMain

\* Service.DryRunSendMessage for the first profile
MainDryRunSendMessage ==
    /\ mainPc = "message"
    /\ LET url == profiles[visitIndex + 1].ProfileURL
           m == [Done(main, "DryRunSendMessage", "wait") EXCEPT
                    !.messageRecords =
                        Append(@, NewMessageRecord(url, FollowUpTemplate, MessageSkipped))]
       IN  /\ main' = IF visitIndex < visitCount - 1 THEN m ELSE NextIteration(m)
           /\ logged' = logged \cup {<<"DRY_RUN typing_simulated", url>>,
                                     <<"DRY_RUN would_send_message", url>>}
    /\ UNCHANGED <<profiles, page, timingVars>>
    /\ UNCHANGED outsideMain

\* timing.ActionDelay and the sleep between two visits
MainActionDelay ==
    /\ mainPc = "wait"
    /\ \E delay \in logNormalDelay(timingConfig.MinActionDelay,
                                   timingConfig.MaxActionDelay) :
           timing' = [timing EXCEPT
                         !.sampled = delay,
                         !.fatigueActive =
                             IF timingActionCount >= timingConfig.FatigueAfter
                             THEN TRUE
                             ELSE fatigueActive,
                         !.actionCount = timingActionCount + 1,
                         !.sinceReset = Append(@, "ActionDelay")]
    /\ main' = NextIteration(Done(main, "ActionDelay", "wait"))
    /\ UNCHANGED <<profiles, page, logged>>
    /\ UNCHANGED outsideMain

\* the summary and the return of main
MainFinish ==
    /\ mainPc = "finish"
    /\ logged' = logged \cup {<<"DRY-RUN EXECUTION COMPLETE", "">>}
    /\ main' = Exit(main, 0)
    /\ UNCHANGED <<profiles, page, timingVars>>
    /\ UNCHANGED outsideMain

\* the state of main at its first statement
NewMain ==
    [pc |-> "start", exitStatus |-> NoRet, visitIndex |-> 0, executed |-> <<>>,
     detected |-> NoRet, siteActions |-> {}, messageRecords |-> <<>>,
     unix |-> 0, store |-> {}, earlier |-> {}, run |-> 1]

MainInit ==
    /\ now = 0
    /\ NoLimits
    /\ NoScheduler
    /\ NoGoroutines
    /\ NoPage
    /\ NoTiming
    /\ main = NewMain
    /\ profiles = <<>>
    /\ logged = {}
    /\ lastOp = "main"
    /\ ret = NoRet

MainNext ==
    \/ MainStartup
    \/ MainLoadSession
    \/ MainLogin
    \/ MainDetect
    \/ MainExecuteSearch
    \/ MainScrollDown
    \/ MainParseResults
    \/ MainVisitProfile
    \/ MainDryRunSendMessage
    \/ MainActionDelay
    \/ MainFinish

SpecMain == MainInit /\ [][MainNext]_vars

----------------------------------------------------------------------------
(* The sessions table over consecutive runs of main (cmd/app/main.go and
   SQLiteStore): main carries, besides its locals, the second of its start
   (unix), the sessions table (store), the table the run found at its start
   (earlier) and the number of the run (run) *)

MaxRuns == 3

\* the cookies the browser context holds after a successful login
LoginJars ==
    {jar \in SUBSET [name : {"li_at", "JSESSIONID"}, expired : BOOLEAN] :
        /\ [name |-> "li_at", expired |-> FALSE] \in jar
        /\ \A c, d \in jar : c.name = d.name => c = d}

\* sessionID := fmt.Sprintf("session_%d", time.Now().Unix())
SessionID(m) == m.unix

\* SQLiteStore.GetSession: the row of that session_id, if there is one; a row of
\* the running second was written less than thirty days ago
GetSession(store, sessionID) ==
    IF \E r \in store : r.id = sessionID
    THEN LET r == CHOOSE r \in store : r.id = sessionID
         IN  [found |-> TRUE, cookies |-> r.cookies, expired |-> FALSE,
              corrupt |-> FALSE]
    ELSE [found |-> FALSE, cookies |-> {}, expired |-> FALSE, corrupt |-> FALSE]

\* the load of a run from the sessions table
RunLoadSession ==
    /\ mainPc = "session"
    /\ LoadSession(GetSession(main.store, SessionID(main)))
    /\ UNCHANGED <<profiles, page, timingVars>>
    /\ UNCHANGED outsideMain

\* the login of a run, and ctx.GetCookies, Save and SaveSession after it
RunLogin ==
    /\ mainPc = "login"
    /\ \E jar \in LoginJars, cookiesRead \in BOOLEAN : LoginStep(cookiesRead, jar)
    /\ UNCHANGED <<profiles, timingVars>>
    /\ UNCHANGED outsideMain

\* the process has ended, after the session steps or at an exit, and the
\* program is started again in the same second or in a later one
NextRun ==
    /\ mainPc \in {"detect", "exited"}
    /\ main.run < MaxRuns
    /\ \E later \in {0, 1} :
           main' = [NewMain EXCEPT !.unix = main.unix + later,
                                   !.store = main.store,
                                   !.earlier = main.store,
                                   !.run = main.run + 1]
    /\ page' = NoRet
    /\ logged' = {}
    /\ UNCHANGED <<profiles, timingVars>>
    /\ UNCHANGED outsideMain

SessionInit ==
    /\ now = 0
    /\ NoLimits
    /\ NoScheduler
    /\ NoGoroutines
    /\ NoPage
    /\ NoTiming
    /\ main = NewMain
    /\ profiles = <<>>
    /\ logged = {}
    /\ lastOp = "main"
    /\ ret = NoRet

SessionNext ==
    \/ MainStartup
    \/ RunLoadSession
    \/ RunLogin
    \/ NextRun

SpecSession == SessionInit /\ [][SessionNext]_vars

----------------------------------------------------------------------------
(* Mouse (package stealth): config holds Mouse.config and page the browser
   page with its pointer, a record of
     pointer : where the pointer of the page is
     moves   : the points of the MoveLinear calls that succeeded in the last
               MoveTo, in order *)

MaxPathSteps == 3

\* Point; nan marks coordinates that are NaN
Point(x, y) == [X |-> x, Y |-> y, nan |-> FALSE]
NaNPoint == [X |-> 0, Y |-> 0, nan |-> TRUE]

\* currentX, currentY := 960.0, 540.0
Center == Point(960, 540)

\* the targets explored
Targets == {Point(958, 537), Point(963, 542)}

\* config.MouseConfig as Validate admits it: MinSteps <= MaxSteps
MouseConfigs ==
    {c \in [MinSteps : 1 .. MaxPathSteps, MaxSteps : 1 .. MaxPathSteps,
            Overshoot : BOOLEAN, OvershootSpread : {2}, JitterRadius : {0, 1}] :
        c.MinSteps <= c.MaxSteps}

Abs(x) == IF x < 0 THEN -x ELSE x

\* math.Sqrt, on the integer grid
Sqrt(n) == CHOOSE r \in 0 .. n : r * r <= n /\ n < (r + 1) * (r + 1)

\* randomInt(min, max): callers drop the error and use the 0 returned with it
randomInt(min, max) == IF min > max THEN {0} ELSE min .. max

\* randomFloat(min, max): min + n/10000 * (max - min), at n = 0 and n = 10000
randomFloat(min, max) == {min, max}

\* cubicBezier at t = i / n: 0 / 0 is NaN and so is every product with it
cubicBezier(i, n, p0, p1, p2, p3) ==
    IF n = 0
    THEN NaNPoint
    ELSE LET u == n - i
             At(a, b, c, d) ==
                 (u * u * u * a + 3 * u * u * i * b + 3 * u * i * i * c
                  + i * i * i * d) \div (n * n * n)
         IN  Point(At(p0.X, p1.X, p2.X, p3.X), At(p0.Y, p1.Y, p2.Y, p3.Y))

\* the paths Mouse.generateBezierPath may return
generateBezierPath(cfg, start, end) ==
    LET dx == end.X - start.X
        dy == end.Y - start.Y
        distance == Sqrt(dx * dx + dy * dy)
        spread == randomFloat(-(distance \div 5), distance \div 5)
    IN  {[i \in 1 .. steps |->
             cubicBezier(i - 1, steps - 1, start,
                         Point(start.X + (dx * 33) \div 100 + o[1],
                               start.Y + (dy * 33) \div 100 + o[2]),
                         Point(start.X + (dx * 66) \div 100 + o[3],
                               start.Y + (dy * 66) \div 100 + o[4]),
                         end)] :
            steps \in randomInt(cfg.MinSteps, cfg.MaxSteps),
            o \in spread \X spread \X spread \X spread}

\* the points at most r away from p on each axis that a draw may give
Around(p, r) == {Point(p.X + ox, p.Y + oy) : ox \in randomFloat(-r, r),
                                             oy \in randomFloat(-r, r)}

\* the moves of performOvershoot
performOvershoot(cfg, target) ==
    {<<overshoot, target>> : overshoot \in Around(target, cfg.OvershootSpread)}

\* the move of addJitter
addJitter(cfg, target) == {<<jitter>> : jitter \in Around(target, cfg.JitterRadius)}

\* a MoveTo that jitters before it overshoots
MoveTail_JitterFirst(cfg, target) ==
    {jitter \o overshoot :
        jitter \in IF cfg.JitterRadius > 0 THEN addJitter(cfg, target) ELSE {<<>>},
        overshoot \in IF cfg.Overshoot THEN performOvershoot(cfg, target) ELSE {<<>>}}

\* the moves of MoveTo after the path: performOvershoot, then addJitter
MoveTail(cfg, target) ==
    {overshoot \o jitter :
        overshoot \in IF cfg.Overshoot THEN performOvershoot(cfg, target) ELSE {<<>>},
        jitter \in IF cfg.JitterRadius > 0 THEN addJitter(cfg, target) ELSE {<<>>}}

\* Mouse.generateBezierPath(start, end)
GenerateBezierPath ==
    /\ \E start \in Targets \cup {Center}, end \in Targets :
           \E path \in generateBezierPath(config, start, end) :
               ret' = [start |-> start, end |-> end, points |-> path]
    /\ lastOp' = "generateBezierPath"
    /\ UNCHANGED <<now, limitsVars, limitsHist, schedulerVars, schedulerHist, goVars,
                   appVars>>

\* Mouse.MoveTo(targetX, targetY); failed is the number of the MoveLinear call
\* that returns an error, 0 if none does
MoveTo ==
    /\ \E target \in Targets :
       \E path \in generateBezierPath(config, Center, target),
          tail \in MoveTail(config, target) :
           LET plan == path \o tail
           IN  \E failed \in 0 .. Len(plan) :
                   LET issued == IF failed = 0
                                 THEN plan
                                 ELSE SubSeq(plan, 1, failed - 1)
                   IN  /\ page' = [pointer |-> IF issued = <<>>
                                               THEN page.pointer
                                               ELSE issued[Len(issued)],
                                   moves |-> issued]
                       /\ ret' = [err |-> IF failed = 0 THEN NoErr ELSE "MoveLinear",
                                  target |-> target, path |-> path]
    /\ lastOp' = "MoveTo"
    /\ UNCHANGED <<now, limitsVars, limitsHist, schedulerVars, schedulerHist, goVars,
                   timingVars, mainVars, logged>>

\* NewMouse(page, cfg) on a page whose pointer rests at one of the targets
MouseInit ==
    /\ now = 0
    /\ config \in MouseConfigs
    /\ connectionCount = 0
    /\ messageCount = 0
    /\ searchCount = 0
    /\ lastConnection = ZeroTime
    /\ lastMessage = ZeroTime
    /\ consecutiveCount = 0
    /\ lastReset = ZeroTime
    /\ recorded = 0
    /\ freshReset = FALSE
    /\ NoScheduler
    /\ NoGoroutines
    /\ \E p \in Targets \cup {Center} : page = [pointer |-> p, moves |-> <<>>]
    /\ NoTiming
    /\ NoMain
    /\ logged = {}
    /\ lastOp = "NewMouse"
    /\ ret = NoRet

MouseNext == MoveTo

SpecMouse == MouseInit /\ [][MouseNext]_vars

\* generateBezierPath on its own: it reads the config only
BezierInit ==
    /\ now = 0
    /\ config \in MouseConfigs
    /\ connectionCount = 0
    /\ messageCount = 0
    /\ searchCount = 0
    /\ lastConnection = ZeroTime
    /\ lastMessage = ZeroTime
    /\ consecutiveCount = 0
    /\ lastReset = ZeroTime
    /\ recorded = 0
    /\ freshReset = FALSE
    /\ NoScheduler
    /\ NoGoroutines
    /\ NoApp
    /\ lastOp = "NewMouse"
    /\ ret = NoRet

BezierNext == GenerateBezierPath

SpecBezier == BezierInit /\ [][BezierNext]_vars

----------------------------------------------------------------------------
(* Typing (package stealth): config holds Typing.config and page the browser
   page with its keyboard, a record of
     text : the text Type is called with
     keys : the keystrokes the keyboard has accepted, in order, each with the
            key and whether typeWord sent it as a typo *)

MaxTextLen == 4

\* the characters of the texts explored
TextChars == {"a", "b", " ", "\t"}

RECURSIVE TextsUpTo(_)
TextsUpTo(n) ==
    IF n = 0
    THEN {""}
    ELSE LET shorter == TextsUpTo(n - 1)
         IN  shorter \cup {t \o c : t \in shorter, c \in TextChars}

Texts == TextsUpTo(MaxTextLen)

\* config.TypingConfig: ErrorRate in hundredths
TypingConfigs == [ErrorRate : {-1, 0, 2}]

\* input.Backspace
Backspace == "Backspace"

Key(key, typo) == [key |-> key, typo |-> typo]

\* splitIntoWords: char == ' ' || char == '\n' || char == '\t'
IsSeparator(c) == c \in {" ", "\n", "\t"}

RECURSIVE SplitFrom(_, _, _, _)
SplitFrom(text, i, currentWord, words) ==
    IF i > Len(text)
    THEN IF Len(currentWord) > 0 THEN Append(words, currentWord) ELSE words
    ELSE IF IsSeparator(SubSeq(text, i, i))
         THEN IF Len(currentWord) > 0
              THEN SplitFrom(text, i + 1, "", Append(words, currentWord))
              ELSE SplitFrom(text, i + 1, currentWord, words)
         ELSE SplitFrom(text, i + 1, currentWord \o SubSeq(text, i, i), words)

splitIntoWords(text) == SplitFrom(text, 1, "", <<>>)

\* shouldMakeError: the outcomes of rand < errorRate
shouldMakeError(errorRate) ==
    IF errorRate <= 0
    THEN {FALSE}
    ELSE {rand < errorRate : rand \in randomFloat(0, 100)}

\* getRandomChar, at the first and the last index
getRandomChar == {"a", "z"}

\* a typeWord that may mistype every character
TypoAllowed_Always(i) == TRUE

\* the test i > 0 of typeWord on the offset i of the character
TypoAllowed(i) == i > 0

\* typeWord from the character at offset i on: the keystroke sequences the
\* draws may give
RECURSIVE typeWordFrom(_, _, _)
typeWordFrom(cfg, word, i) ==
    IF i >= Len(word)
    THEN {<<>>}
    ELSE LET char == SubSeq(word, i + 1, i + 1)
             heads ==
                 {IF makeError /\ TypoAllowed(i)
                  THEN <<Key(wrongChar, TRUE), Key(Backspace, FALSE), Key(char, FALSE)>>
                  ELSE <<Key(char, FALSE)>> :
                     makeError \in shouldMakeError(cfg.ErrorRate),
                     wrongChar \in getRandomChar}
         IN  {head \o rest : head \in heads, rest \in typeWordFrom(cfg, word, i + 1)}

typeWord(cfg, word) == typeWordFrom(cfg, word, 0)

\* the loop of Type from the word words[i] on
RECURSIVE TypeFrom(_, _, _)
TypeFrom(cfg, words, i) ==
    IF i > Len(words)
    THEN {<<>>}
    ELSE {word \o (IF i < Len(words) THEN <<Key(" ", FALSE)>> ELSE <<>>) \o rest :
             word \in typeWord(cfg, words[i]), rest \in TypeFrom(cfg, words, i + 1)}

\* Typing.Type(text); failed is the number of the keyboard call that returns an
\* error, 0 if none does
Type ==
    /\ lastOp = "NewTyping"
    /\ \E keys \in TypeFrom(config, splitIntoWords(page.text), 1) :
       \E failed \in 0 .. Len(keys) :
           /\ page' = [page EXCEPT !.keys = IF failed = 0
                                            THEN keys
                                            ELSE SubSeq(keys, 1, failed - 1)]
           /\ ret' = IF failed = 0 THEN NoErr ELSE "Keyboard"
    /\ lastOp' = "Type"
    /\ UNCHANGED <<now, limitsVars, limitsHist, schedulerVars, schedulerHist, goVars,
                   timingVars, mainVars, logged>>

\* NewTyping(page, cfg) and the text of the call to come
TypingInit ==
    /\ now = 0
    /\ config \in TypingConfigs
    /\ connectionCount = 0
    /\ messageCount = 0
    /\ searchCount = 0
    /\ lastConnection = ZeroTime
    /\ lastMessage = ZeroTime
    /\ consecutiveCount = 0
    /\ lastReset = ZeroTime
    /\ recorded = 0
    /\ freshReset = FALSE
    /\ NoScheduler
    /\ NoGoroutines
    /\ \E text \in Texts : page = [text |-> text, keys |-> <<>>]
    /\ NoTiming
    /\ NoMain
    /\ logged = {}
    /\ lastOp = "NewTyping"
    /\ ret = NoRet

TypingNext == Type

SpecTyping == TypingInit /\ [][TypingNext]_vars

----------------------------------------------------------------------------
(* Scroll.ScrollToBottom (package stealth): config holds Scroll.config and page
   the browser page, a record of
     height  : document.body.scrollHeight
     growth  : how many more times the height of the page will change
     running : ScrollToBottom is inside its loop
     log     : the iterations of the running (or last) call that compared the
               heights: [before, after, back], back telling that ScrollUp was
               called *)

MaxGrowth == 3

\* config.ScrollConfig: ScrollBackChance in hundredths
ScrollConfigs == [ScrollBackChance : {0, 30}]

\* shouldScrollBack: the outcomes of rand < chance
shouldScrollBack(chance) ==
    IF chance <= 0
    THEN {FALSE}
    ELSE {rand < chance : rand \in randomFloat(0, 100)}

\* the heights the page may have after a scroll and the pause
HeightsAfter(p) ==
    IF p.growth = 0
    THEN {p.height}
    ELSE {h \in {p.height - 1, p.height, p.height + 1} : h >= 1}

\* a loop that also takes a shrunken page for the bottom
AtBottom_Shrunk(beforeHeight, afterHeight) == beforeHeight >= afterHeight

\* the test beforeHeight == afterHeight
AtBottom(beforeHeight, afterHeight) == beforeHeight = afterHeight

\* ScrollToBottom ends with err
Returned(p, err) ==
    /\ page' = [p EXCEPT !.running = FALSE]
    /\ ret' = err

\* a caller enters ScrollToBottom
ScrollToBottom ==
    /\ ~page.running
    /\ page' = [page EXCEPT !.running = TRUE, !.log = <<>>]
    /\ ret' = NoRet
    /\ lastOp' = "ScrollToBottom"
    /\ UNCHANGED <<now, limitsVars, limitsHist, schedulerVars, schedulerHist, goVars,
                   timingVars, mainVars, logged>>

\* one iteration of the loop of ScrollToBottom
ScrollToBottomIteration ==
    /\ page.running
    /\ \/ \* the first getScrollHeight fails
          Returned(page, "getScrollHeight")
       \/ \* ScrollDown fails
          Returned(page, "ScrollDown")
       \/ \E afterHeight \in HeightsAfter(page) :
              LET beforeHeight == page.height
                  loaded == [page EXCEPT
                                !.height = afterHeight,
                                !.growth = IF afterHeight = beforeHeight
                                           THEN @
                                           ELSE @ - 1]
                  Compared(back) ==
                      [loaded EXCEPT
                          !.log = Append(@, [before |-> beforeHeight,
                                             after |-> afterHeight,
                                             back |-> back])]
              IN  \/ \* the second getScrollHeight fails
                     Returned(loaded, "getScrollHeight")
                  \/ /\ AtBottom(beforeHeight, afterHeight)
                     /\ Returned(Compared(FALSE), NoErr)
                  \/ /\ ~AtBottom(beforeHeight, afterHeight)
                     /\ \E back \in shouldScrollBack(config.ScrollBackChance) :
                            \/ /\ page' = Compared(back)
                               /\ UNCHANGED ret
                            \/ /\ back
                               /\ Returned(Compared(back), "ScrollUp")
    /\ lastOp' = "ScrollToBottom"
    /\ UNCHANGED <<now, limitsVars, limitsHist, schedulerVars, schedulerHist, goVars,
                   timingVars, mainVars, logged>>

\* NewScroll(page, cfg) on a page that has still to load content
ScrollInit ==
    /\ now = 0
    /\ config \in ScrollConfigs
    /\ connectionCount = 0
    /\ messageCount = 0
    /\ searchCount = 0
    /\ lastConnection = ZeroTime
    /\ lastMessage = ZeroTime
    /\ consecutiveCount = 0
    /\ lastReset = ZeroTime
    /\ recorded = 0
    /\ freshReset = FALSE
    /\ NoScheduler
    /\ NoGoroutines
    /\ \E growth \in 0 .. MaxGrowth :
           page = [height |-> 2, growth |-> growth, running |-> FALSE, log |-> <<>>]
    /\ NoTiming
    /\ NoMain
    /\ logged = {}
    /\ lastOp = "NewScroll"
    /\ ret = NoRet

ScrollNext ==
    \/ ScrollToBottom
    \/ ScrollToBottomIteration

\* the goroutine that has entered ScrollToBottom goes on running its loop
SpecScroll == ScrollInit /\ [][ScrollNext]_vars /\ WF_vars(ScrollToBottomIteration)

----------------------------------------------------------------------------
(* Limits shared by goroutines that record a connection only after their own
   CanSendConnection has permitted it: ret holds, per goroutine, whether its
   last CanSendConnection returned true and it has not recorded since *)

\* the two calls of such a caller
GuardedMethods == {"CanSendConnection", "RecordConnection"}

\* g calls CanSendConnection, or RecordConnection after it was permitted
GuardedLock(g, m) ==
    /\ m = "RecordConnection" => ret[g]
    /\ Lock(g, m)

\* the deferred l.mu.Unlock() and the return of the result to the caller g
GuardedUnlock(g) ==
    /\ AtReturn(g)
    /\ op[g] \in GuardedMethods
    /\ mu' = NoHolder
    /\ pc' = [pc EXCEPT ![g] = Idle]
    /\ op' = [op EXCEPT ![g] = NoRet]
    /\ tmp' = [tmp EXCEPT ![g] = 0]
    /\ res' = [res EXCEPT ![g] = NoRet]
    /\ ret' = [ret EXCEPT ![g] = IF op[g] = "CanSendConnection"
                                  THEN res[g].ok
                                  ELSE FALSE]
    /\ recorded' = IF op[g] = "RecordConnection" THEN recorded + 1 ELSE recorded
    /\ recordedConsecutive' = IF op[g] = "RecordConnection"
                              THEN recordedConsecutive + 1
                              ELSE recordedConsecutive
    /\ UNCHANGED <<appVars, now, limitsVars, schedulerVars, lastOp, freshReset,
                   schedulerHist>>

\* time passes while the goroutines run
GuardedTick ==
    /\ Sleep(1)
    /\ UNCHANGED <<limitsVars, schedulerVars, histVars, goVars, appVars>>

LimitsGuardedInit ==
    /\ now = 0
    /\ NoApp
    /\ NewLimits
    /\ NoScheduler
    /\ NoGoroutines
    /\ lastOp = "NewLimits"
    /\ ret = [g \in Goroutines |-> FALSE]
    /\ recorded = 0
    /\ freshReset = FALSE

LimitsGuardedNext ==
    \/ \E g \in Goroutines, m \in GuardedMethods : GuardedLock(g, m)
    \/ \E g \in Goroutines : Load(g)
    \/ \E g \in Goroutines : Inc(g)
    \/ \E g \in Goroutines : Stamp(g)
    \/ \E g \in Goroutines : Result(g)
    \/ \E g \in Goroutines : GuardedUnlock(g)
    \/ GuardedTick

SpecLimitsGuarded == LimitsGuardedInit /\ [][LimitsGuardedNext]_vars

----------------------------------------------------------------------------
(* cleanName (package search) on the texts of name elements *)

\* pieces put together into one text
MaxTokens == 3

\* the pieces of the texts explored: name parts, white space, whole boilerplate
\* phrases and fragments of them
NameTokens ==
    {"Jane", " ", "  ", "\n", "\t", "View ", "'s profile", "LinkedIn", "Member",
     "Vi", "ew "}

\* the texts of n pieces
RECURSIVE Joined(_)
Joined(n) ==
    IF n = 0 THEN {""} ELSE {s \o t : s \in Joined(n - 1), t \in NameTokens}

\* the texts handed to cleanName
NameTexts ==
    UNION {Joined(n) : n \in 0 .. MaxTokens}
        \cup {"Rakesh V\nRakesh V's profile", "  Jane   Doe  "}

\* name = cleanName(text) for the text of an element of the page
CleanName ==
    /\ lastOp = "NewParser"
    /\ lastOp' = "cleanName"
    /\ ret' = cleanName(page.text)
    /\ UNCHANGED <<page, profiles, logged>>
    /\ UNCHANGED outsideParser

CleanNameInit ==
    /\ now = 0
    /\ \E text \in NameTexts : page = [text |-> text]
    /\ NoLimits
    /\ NoScheduler
    /\ NoGoroutines
    /\ NoTiming
    /\ main = NoRet
    /\ profiles = <<>>
    /\ logged = {}
    /\ lastOp = "NewParser"
    /\ ret = NoRet

CleanNameNext == CleanName

SpecCleanName == CleanNameInit /\ [][CleanNameNext]_vars

----------------------------------------------------------------------------
(* Session (package auth), the session manager main keeps in sessionMgr: under
   SpecSessionManager main holds its fields sessionID and cookies *)

\* the session ids of the runs: the seconds of their starts
SessionIDs == 0 .. MaxRuns - 1

\* the cookies a Session may hold: no name twice
SessionJars ==
    {jar \in SUBSET [name : {"li_at", "JSESSIONID"}, expired : BOOLEAN] :
        \A c, d \in jar : c.name = d.name => c = d}

\* SessionData as FromJSON receives it: bytes json.Unmarshal rejects (corrupt),
\* or a session id, cookies and whether ExpiresAt has passed
SessionDatas ==
    {d \in [SessionID : SessionIDs, Cookies : SessionJars,
            expired : BOOLEAN, corrupt : BOOLEAN] :
        d.corrupt => (d.SessionID = 0 /\ d.Cookies = {} /\ ~d.expired)}

\* NewSession(sessionID)
NewSession(sessionID) == [sessionID |-> sessionID, cookies |-> {}]

\* Session.Save
SessionSave ==
    /\ \E cookies \in SessionJars :
           IF cookies = {}
           THEN /\ ret' = [err |-> "no cookies to save", data |-> cookies]
                /\ UNCHANGED main
           ELSE /\ ret' = [err |-> NoErr, data |-> cookies]
                /\ main' = [main EXCEPT !.cookies = cookies]
    /\ lastOp' = "Save"
    /\ UNCHANGED <<now, limitsVars, limitsHist, schedulerVars, schedulerHist, goVars,
                   timingVars, page, logged, profiles>>

\* Session.FromJSON
FromJSON ==
    /\ \E data \in SessionDatas :
           IF data.corrupt
           THEN /\ ret' = [err |-> "failed to unmarshal session data", data |-> data]
                /\ UNCHANGED main
           ELSE /\ main' = [main EXCEPT !.sessionID = data.SessionID,
                                        !.cookies = data.Cookies]
                /\ ret' = [err |-> IF data.expired THEN "session has expired" ELSE NoErr,
                           data |-> data]
    /\ lastOp' = "FromJSON"
    /\ UNCHANGED <<now, limitsVars, limitsHist, schedulerVars, schedulerHist, goVars,
                   timingVars, page, logged, profiles>>

SessionManagerInit ==
    /\ now = 0
    /\ NoLimits
    /\ NoScheduler
    /\ NoGoroutines
    /\ NoPage
    /\ NoTiming
    /\ \E sessionID \in SessionIDs : main = NewSession(sessionID)
    /\ profiles = <<>>
    /\ logged = {}
    /\ lastOp = "NewSession"
    /\ ret = NoRet

SessionManagerNext ==
    \/ SessionSave
    \/ FromJSON

SpecSessionManager == SessionManagerInit /\ [][SessionManagerNext]_vars

----------------------------------------------------------------------------
(* Scheduler.calculateNextStartTime, one action per iteration of its loop:
   ret holds the argument (from), the local next and where the call stands *)

\* the last day of the model's calendar: a next beyond it is followed a whole
\* week earlier, on the same weekday
HorizonDays == 16

\* the arguments explored: the hour slots of one week
FromTimes == 0 .. (Len(WeekdayNames) * TicksPerDay - 1)

\* schedule configurations the loader's validate accepts: 0 <= start_hour <
\* end_hour <= the last hour of the day; weekdays is not validated
NextStartConfigs ==
    {[c EXCEPT !.Weekdays = w] :
        c \in {x \in ScheduleConfigs :
                  x.BusinessHoursOnly /\ x.BreakAfter = 0
                      /\ x.EndHour <= TicksPerDay - 1},
        w \in {<<>>, <<"Monday", "Tuesday">>, <<"Saturday">>, <<"monday">>}}

\* time.Date(year, month, day, hour, 0, 0, 0, loc)
DateAt(date, hour) == date * TicksPerDay + hour

\* calculateNextStartTime up to its loop
FirstStart(from) ==
    IF Hour(from) >= scheduleConfig.EndHour
    THEN DateAt(Date(from) + 1, scheduleConfig.StartHour)
    ELSE IF Hour(from) < scheduleConfig.StartHour
    THEN DateAt(Date(from), scheduleConfig.StartHour)
    ELSE from

CalculateNextStartTime ==
    /\ ret.pc # "loop"
    /\ \E from \in FromTimes :
           ret' = [from |-> from, next |-> FirstStart(from), pc |-> "loop"]
    /\ lastOp' = "calculateNextStartTime"
    /\ UNCHANGED <<now, schedulerVars, schedulerHist>>
    /\ UNCHANGED outsideScheduler

\* one iteration: next is not a configured weekday
NextStartAdvance ==
    /\ ret.pc = "loop"
    /\ ~isValidWeekday(ret.next)
    /\ LET date == Date(ret.next) + 1
           followed == IF date > HorizonDays THEN date - Len(WeekdayNames) ELSE date
       IN  ret' = [ret EXCEPT !.next = DateAt(followed, scheduleConfig.StartHour)]
    /\ UNCHANGED <<now, lastOp, schedulerVars, schedulerHist>>
    /\ UNCHANGED outsideScheduler

\* return next
NextStartReturn ==
    /\ ret.pc = "loop"
    /\ isValidWeekday(ret.next)
    /\ ret' = [ret EXCEPT !.pc = "returned"]
    /\ UNCHANGED <<now, lastOp, schedulerVars, schedulerHist>>
    /\ UNCHANGED outsideScheduler

NextStartInit ==
    /\ now = 0
    /\ NoApp
    /\ scheduleConfig \in NextStartConfigs
    /\ actionCount = 0
    /\ lastBreakTime = now
    /\ NewLimits
    /\ config = SchedulerLimitsConfig
    /\ NoGoroutines
    /\ lastOp = "NewScheduler"
    /\ ret = [from |-> 0, next |-> 0, pc |-> "idle"]
    /\ recorded = 0
    /\ freshReset = FALSE
    /\ actionsSinceBreak = 0
    /\ resetSinceBreak = FALSE

NextStartNext ==
    \/ CalculateNextStartTime
    \/ NextStartAdvance
    \/ NextStartReturn

\* the loop is sequential code: an iteration that can run does run
SpecNextStart ==
    /\ NextStartInit
    /\ [][NextStartNext]_vars
    /\ WF_vars(NextStartAdvance)
    /\ WF_vars(NextStartReturn)

----------------------------------------------------------------------------
(* Fingerprint (package stealth): config is the FingerprintConfig, ret what
   GenerateFingerprint and Fingerprint.String return *)

\* user agents in one configured pool
MaxPool == 2

\* getDefaultUserAgent
DefaultUserAgent ==
    "Mozilla/5.0 (Windows NT 10.0; Win64; x64) AppleWebKit/537.36 (KHTML, like Gecko) Chrome/120.0.0.0 Safari/537.36"

\* the user agents a pool is made of
UserAgentStrings ==
    {DefaultUserAgent,
     "Mozilla/5.0 (Macintosh; Intel Mac OS X 10_15_7) AppleWebKit/537.36 (KHTML, like Gecko) Chrome/120.0.0.0 Safari/537.36",
     "Mozilla/5.0 (X11; Linux x86_64) AppleWebKit/537.36 (KHTML, like Gecko) Chrome/120.0.0.0 Safari/537.36",
     "Mozilla/5.0 (compatible; Googlebot/2.1; +http://www.google.com/bot.html)",
     "Windows", "Macintosh", "curl/8.4.0 Linux", ""}

\* FingerprintConfig as the loader's validate accepts it
FingerprintConfigs ==
    [UserAgents : SeqsUpTo(UserAgentStrings, MaxPool), Languages : {<<>>},
     Timezones : {<<>>}, ViewportWidthMin : {1280}, ViewportWidthMax : {1281},
     ViewportHeightMin : {720}, ViewportHeightMax : {720}, CPUCores : {<<>>}]

\* contains of package stealth
fingerprintContains(s, substr) ==
    /\ Len(s) >= Len(substr)
    /\ \/ s = substr
       \/ /\ Len(s) > Len(substr)
          /\ \/ SubSeq(s, 1, Len(substr)) = substr
             \/ SubSeq(s, Len(s) - Len(substr) + 1, Len(s)) = substr
             \/ /\ Len(s) > Len(substr)
                /\ SubSeq(s, 2, Len(s) - 1) # SubSeq(s, 2, Len(s) - 1)

detectPlatform(userAgent) ==
    IF fingerprintContains(userAgent, "Win") THEN "Win32"
    ELSE IF fingerprintContains(userAgent, "Mac") THEN "MacIntel"
    ELSE IF fingerprintContains(userAgent, "Linux") THEN "Linux x86_64"
    ELSE "Win32"

\* randomChoice on a non-empty slice, the default for an empty one
ChoiceOr(slice, default) == IF Len(slice) = 0 THEN {default} ELSE Range(slice)

\* the fingerprints GenerateFingerprint(cfg) may return
Fingerprints(cfg) ==
    {[UserAgent |-> ua, Language |-> lang, Timezone |-> tz,
      Platform |-> detectPlatform(ua), ViewportWidth |-> vw, ViewportHeight |-> vh,
      HardwareConcurrency |-> cores, DeviceMemory |-> mem] :
        ua \in ChoiceOr(cfg.UserAgents, DefaultUserAgent),
        lang \in ChoiceOr(cfg.Languages, "en-US"),
        tz \in ChoiceOr(cfg.Timezones, "America/New_York"),
        vw \in randomInt(cfg.ViewportWidthMin, cfg.ViewportWidthMax),
        vh \in randomInt(cfg.ViewportHeightMin, cfg.ViewportHeightMax),
        cores \in ChoiceOr(cfg.CPUCores, 8),
        mem \in {4, 8, 16}}

\* GenerateFingerprint: a fingerprint, or the error of a failed random draw
GenerateFingerprint ==
    /\ lastOp = "main"
    /\ \/ \E fp \in Fingerprints(config) : ret' = [fp |-> fp, err |-> NoErr]
       \/ ret' = [fp |-> NoRet, err |-> "rand.Int"]
    /\ lastOp' = "GenerateFingerprint"
    /\ UNCHANGED <<now, limitsVars, limitsHist, schedulerVars, schedulerHist, goVars,
                   appVars>>

\* Fingerprint.String on the fingerprint main has received: the slice
\* fp.UserAgent[:50] panics when the user agent is shorter
FingerprintString ==
    /\ lastOp = "GenerateFingerprint"
    /\ ret.err = NoErr
    /\ LET fp == ret.fp
       IN  ret' = IF Len(fp.UserAgent) < 50
                  THEN [fp |-> fp, err |-> NoErr, panic |-> TRUE, string |-> ""]
                  ELSE [fp |-> fp, err |-> NoErr, panic |-> FALSE,
                        string |-> "Fingerprint{UA: " \o SubSeq(fp.UserAgent, 1, 50)
                                   \o "..., Lang: " \o fp.Language
                                   \o ", TZ: " \o fp.Timezone
                                   \o ", Viewport: " \o Itoa(fp.ViewportWidth)
                                   \o "x" \o Itoa(fp.ViewportHeight)
                                   \o ", Cores: " \o Itoa(fp.HardwareConcurrency)
                                   \o "}"]
    /\ lastOp' = "String"
    /\ UNCHANGED <<now, limitsVars, limitsHist, schedulerVars, schedulerHist, goVars,
                   appVars>>

FingerprintInit ==
    /\ now = 0
    /\ config \in FingerprintConfigs
    /\ connectionCount = 0
    /\ messageCount = 0
    /\ searchCount = 0
    /\ lastConnection = ZeroTime
    /\ lastMessage = ZeroTime
    /\ consecutiveCount = 0
    /\ lastReset = ZeroTime
    /\ recorded = 0
    /\ freshReset = FALSE
    /\ NoScheduler
    /\ NoGoroutines
    /\ NoApp
    /\ lastOp = "main"
    /\ ret = NoRet

FingerprintNext ==
    \/ GenerateFingerprint
    \/ FingerprintString

SpecFingerprint == FingerprintInit /\ [][FingerprintNext]_vars

----------------------------------------------------------------------------
(* Pagination.GoToPage (package search): page holds the URL of the browser
   page and the currentPage field of the Pagination *)

\* the highest page number asked for
MaxPageNum == 2

\* the page numbers passed to GoToPage: an invalid one, the first ones and one
\* of two digits
PageNums == 0 .. MaxPageNum \cup {10}

\* the URLs the page shows when the Pagination is created
SearchPageURLs ==
    {"/search/results/people/" \o query :
        query \in {"", "?keywords=go", "?keywords=go&page=2", "?page=2",
                   "?page=2&keywords=go", "?keywords=go&page=12&origin=x",
                   "?keywords=go&page=", "?keywords=go&homepage=1"}}

\* findSubstringIndex
findSubstringIndex(s, substr) == Index(s, substr)

\* the index after the digits that start at index end (0-based)
RECURSIVE SkipDigits(_, _)
SkipDigits(urlStr, end) ==
    IF end < Len(urlStr) /\ SubSeq(urlStr, end + 1, end + 1) \in Range(Digits)
    THEN SkipDigits(urlStr, end + 1)
    ELSE end

updatePageParam(urlStr, pageNum) ==
    IF findSubstringIndex(urlStr, "&page=") # -1
    THEN LET start == findSubstringIndex(urlStr, "&page=")
             end == SkipDigits(urlStr, start + 6)
         IN  SubSeq(urlStr, 1, start) \o "&page=" \o Itoa(pageNum)
                 \o SubSeq(urlStr, end + 1, Len(urlStr))
    ELSE IF findSubstringIndex(urlStr, "?") # -1
    THEN urlStr \o "&page=" \o Itoa(pageNum)
    ELSE urlStr \o "?page=" \o Itoa(pageNum)

\* Pagination.GoToPage; MustInfo panics when the page information cannot be read
GoToPage ==
    /\ \E pageNum \in PageNums :
           IF pageNum < 1
           THEN /\ ret' = [err |-> "invalid page number", pageNum |-> pageNum,
                           from |-> page.URL]
                /\ UNCHANGED page
           ELSE \E err \in {NoErr, "panic", "failed to navigate",
                            "failed to wait for page load"} :
                    /\ ret' = [err |-> err, pageNum |-> pageNum, from |-> page.URL]
                    /\ page' = [page EXCEPT
                                   !.URL = IF err \in {"panic", "failed to navigate"}
                                           THEN @
                                           ELSE updatePageParam(@, pageNum),
                                   !.currentPage = IF err = NoErr THEN pageNum ELSE @]
    /\ lastOp' = "GoToPage"
    /\ UNCHANGED <<now, limitsVars, limitsHist, schedulerVars, schedulerHist, goVars,
                   timingVars, mainVars, logged>>

\* NewPagination on a page that shows a search URL
PaginationInit ==
    /\ now = 0
    /\ NoLimits
    /\ NoScheduler
    /\ NoGoroutines
    /\ \E url \in SearchPageURLs : page = [URL |-> url, currentPage |-> 1]
    /\ NoTiming
    /\ NoMain
    /\ logged = {}
    /\ lastOp = "NewPagination"
    /\ ret = NoRet

PaginationNext == GoToPage

SpecPagination == PaginationInit /\ [][PaginationNext]_vars

----------------------------------------------------------------------------
(* Scroll.smoothScroll (package stealth): config is the ScrollConfig, page the
   list of the deltas the mouse wheel has executed *)

\* the largest configured scroll_steps and the largest distance explored
MaxScrollSteps == 3
MaxDistance == 10
\* up to this magnitude every int is a float64 (2^53 in the program); above it,
\* and below twice it, only the even ones are
MaxExactFloat == 8

SmoothScrollConfigs == [ScrollSteps : -1 .. MaxScrollSteps]

\* float64(n)
Float64(n) ==
    IF Abs(n) <= MaxExactFloat \/ n % 2 = 0 THEN n
    ELSE IF (n + 1) % 4 = 0 THEN n + 1 ELSE n - 1

\* steps of smoothScroll
Steps(scrollSteps) == IF scrollSteps <= 0 THEN 10 ELSE scrollSteps

\* int(float64(totalDistance) * eased) for progress j / steps, where
\* eased = 1 - (1 - j/steps)^3: the floating-point product may fall just below
\* a whole number the exact product hits; at progress 1 eased is exactly 1
PositionsAt(totalDistance, j, steps) ==
    LET den == steps * steps * steps
        num == den - (steps - j) * (steps - j) * (steps - j)
        f == Float64(totalDistance)
        magnitude == (Abs(f) * num) \div den
        sign == IF f < 0 THEN -1 ELSE 1
    IN  IF j = steps THEN {f}
        ELSE IF magnitude > 0 /\ (Abs(f) * num) % den = 0
        THEN {sign * magnitude, sign * (magnitude - 1)}
        ELSE {sign * magnitude}

\* targetPosition of every iteration; currentPosition is the targetPosition of
\* the iteration before, 0 in the first
RECURSIVE PositionsUpTo(_, _, _)
PositionsUpTo(totalDistance, j, steps) ==
    IF j = 0 THEN {<<>>}
    ELSE {Append(p, x) : p \in PositionsUpTo(totalDistance, j - 1, steps),
                         x \in PositionsAt(totalDistance, j, steps)}

Positions(totalDistance, steps) == PositionsUpTo(totalDistance, steps, steps)

\* a step measured from the start of the scroll
stepDistance_FromStart(p, i) == p[i]

\* stepDistance := targetPosition - currentPosition
stepDistance(p, i) == p[i] - (IF i > 1 THEN p[i - 1] ELSE 0)

\* smoothScroll(totalDistance): the Mouse.Scroll call number failed returns an
\* error (0: none does)
SmoothScroll ==
    /\ lastOp = "NewScroll"
    /\ \E totalDistance \in -MaxDistance .. MaxDistance :
           IF totalDistance = 0
           THEN /\ ret' = [err |-> NoErr, totalDistance |-> 0, calls |-> 0]
                /\ UNCHANGED page
           ELSE LET steps == Steps(config.ScrollSteps)
                IN  \E p \in Positions(totalDistance, steps), failed \in 0 .. steps :
                        LET done == IF failed = 0 THEN steps ELSE failed - 1
                        IN  /\ page' = [i \in 1 .. done |-> stepDistance(p, i)]
                            /\ ret' = [err |-> IF failed = 0 THEN NoErr
                                               ELSE "Mouse.Scroll",
                                       totalDistance |-> totalDistance,
                                       calls |-> IF failed = 0 THEN steps ELSE failed]
    /\ lastOp' = "smoothScroll"
    /\ UNCHANGED <<now, limitsVars, limitsHist, schedulerVars, schedulerHist, goVars,
                   timingVars, mainVars, logged>>

\* NewScroll(page, cfg): nothing scrolled yet
SmoothScrollInit ==
    /\ now = 0
    /\ config \in SmoothScrollConfigs
    /\ connectionCount = 0
    /\ messageCount = 0
    /\ searchCount = 0
    /\ lastConnection = ZeroTime
    /\ lastMessage = ZeroTime
    /\ consecutiveCount = 0
    /\ lastReset = ZeroTime
    /\ recorded = 0
    /\ freshReset = FALSE
    /\ NoScheduler
    /\ NoGoroutines
    /\ page = <<>>
    /\ NoTiming
    /\ NoMain
    /\ logged = {}
    /\ lastOp = "NewScroll"
    /\ ret = NoRet

SmoothScrollNext == SmoothScroll

SpecSmoothScroll == SmoothScrollInit /\ [][SmoothScrollNext]_vars

----------------------------------------------------------------------------
(* Properties of Limits (checked under SpecLimits) *)

\* the three conditions CanSendConnection guards against, read off the state
DailyQuotaReached == connectionCount >= config.DailyConnections
CooldownActive ==
    lastConnection # ZeroTime /\ now - lastConnection < config.ConnectionCooldown
CeilingReached == consecutiveCount >= config.MaxConsecutiveActions
MessageQuotaReached == messageCount >= config.DailyMessages
MessageCooldownActive ==
    lastMessage # ZeroTime /\ now - lastMessage < config.MessageCooldown
SearchQuotaReached == searchCount >= config.DailySearches

DailyReason(n, cap) ==
    "daily connection limit reached (" \o ToString(n) \o "/" \o ToString(cap) \o ")"
CooldownReason(wait) == "connection cooldown active (wait " \o ToString(wait) \o "s)"
CeilingReason(cap) ==
    "max consecutive actions reached (" \o ToString(cap) \o "), take a break"
Permitted == [ok |-> TRUE, reason |-> "ok"]
Denied(why) == [ok |-> FALSE, reason |-> why]

\* C1: CanSendConnection checks daily quota, then cooldown, then the consecutive
\* ceiling, returns (false, reason of the first failing check), and returns
\* (true, "ok") exactly when none of the three fails.
C1_CanSendConnectionOrder ==
    lastOp = "CanSendConnection" =>
        /\ ret.ok <=> ~(DailyQuotaReached \/ CooldownActive \/ CeilingReached)
        /\ ret.ok => ret.reason = "ok"
        /\ DailyQuotaReached =>
               ret = Denied(DailyReason(connectionCount, config.DailyConnections))
        /\ ~DailyQuotaReached /\ CooldownActive =>
               ret = Denied(CooldownReason(config.ConnectionCooldown
                                           - (now - lastConnection)))
        /\ ~DailyQuotaReached /\ ~CooldownActive /\ CeilingReached =>
               ret = Denied(CeilingReason(config.MaxConsecutiveActions))

\* C1 witness: all three checks fail at once and the call has answered
C1_Witness ==
    /\ lastOp = "CanSendConnection"
    /\ DailyQuotaReached /\ CooldownActive /\ CeilingReached
    /\ ~ret.ok

\* C2 as stated: after exactly N recorded connections with cap N the call returns
\* (false, "daily connection limit reached (N/N)"), and a call made immediately
\* after ResetDaily returns (true, "ok").
C2_Original ==
    /\ (lastOp = "CanSendConnection" /\ recorded = config.DailyConnections) =>
           ret = Denied(DailyReason(config.DailyConnections, config.DailyConnections))
    /\ (lastOp = "CanSendConnection" /\ freshReset) => ret = Permitted

\* C2 amended: after exactly N recorded connections with cap N the call returns
\* (false, "daily connection limit reached (N/N)"); a call made immediately
\* after ResetDaily returns (true, "ok") unless the last RecordConnection is less
\* than ConnectionCooldown ago, in which case it returns the cooldown denial
\* (ResetDaily does not clear lastConnection).
C2_ResetDailyReopens ==
    /\ (lastOp = "CanSendConnection" /\ recorded = config.DailyConnections) =>
           ret = Denied(DailyReason(config.DailyConnections, config.DailyConnections))
    /\ (lastOp = "CanSendConnection" /\ freshReset) =>
           ret = IF CooldownActive
                 THEN Denied(CooldownReason(config.ConnectionCooldown
                                            - (now - lastConnection)))
                 ELSE Permitted

\* C2 witness: a connection was recorded, the cooldown has run out, ResetDaily
\* was called and the call right after it is permitted
C2_Witness ==
    /\ lastOp = "CanSendConnection"
    /\ freshReset
    /\ lastConnection # ZeroTime
    /\ ret = Permitted

\* C3 as stated: no Can* call returns permitted while the resource's daily cap is
\* reached, its cooldown is unexpired, or the consecutive ceiling is reached.
C3_Original ==
    /\ (lastOp = "CanSendConnection" /\ ret.ok) =>
           ~DailyQuotaReached /\ ~CooldownActive /\ ~CeilingReached
    /\ (lastOp = "CanSendMessage" /\ ret.ok) =>
           ~MessageQuotaReached /\ ~MessageCooldownActive /\ ~CeilingReached
    /\ (lastOp = "CanSearch" /\ ret.ok) =>
           ~SearchQuotaReached /\ ~CeilingReached

\* C3 amended: no Can* call returns permitted while the resource's daily cap is
\* reached or its cooldown (connections, messages) is unexpired; the consecutive
\* ceiling denies CanSendConnection only.
C3_NoPermitWhileLimited ==
    /\ (lastOp = "CanSendConnection" /\ ret.ok) =>
           ~DailyQuotaReached /\ ~CooldownActive /\ ~CeilingReached
    /\ (lastOp = "CanSendMessage" /\ ret.ok) =>
           ~MessageQuotaReached /\ ~MessageCooldownActive
    /\ (lastOp = "CanSearch" /\ ret.ok) => ~SearchQuotaReached

\* C3 witness: a message is permitted although the consecutive ceiling is reached
C3_Witness ==
    /\ lastOp = "CanSendMessage"
    /\ ret.ok
    /\ CeilingReached
    /\ lastMessage # ZeroTime

\* calls of Limits that only read, and the passage of time
ReadOnlyCalls ==
    {"CanSendConnection", "CanSendMessage", "CanSearch", "ShouldResetDaily",
     "GetConnectionCount", "GetMessageCount", "GetSearchCount",
     "GetRemainingConnections", "GetRemainingMessages", "GetStats",
     "WaitForConnectionCooldown", "WaitForMessageCooldown", "Tick"}

\* C4: a daily counter decreases only in ResetDaily, the consecutive counter only
\* in ResetDaily or ResetConsecutiveCount; time passing and every Can*,
\* ShouldResetDaily, Get* and WaitFor* call leave all counters unchanged; a
\* reached daily cap stays reached until ResetDaily is called.
C4_ResetOnlyExplicit ==
    [][ /\ (\/ connectionCount' < connectionCount
            \/ messageCount' < messageCount
            \/ searchCount' < searchCount) => lastOp' = "ResetDaily"
        /\ consecutiveCount' < consecutiveCount =>
               lastOp' \in {"ResetDaily", "ResetConsecutiveCount"}
        /\ lastOp' \in ReadOnlyCalls =>
               UNCHANGED <<connectionCount, messageCount, searchCount,
                           consecutiveCount>>
        /\ (DailyQuotaReached /\ lastOp' # "ResetDaily") => DailyQuotaReached'
      ]_vars

\* C4 witness: the date has rolled over (ShouldResetDaily-worthy), no reset was
\* called, and CanSendConnection still denies on the daily cap
C4_Witness ==
    /\ lastOp = "CanSendConnection"
    /\ Date(now) > Date(lastReset)
    /\ Day(now) # Day(lastReset)
    /\ DailyQuotaReached
    /\ ~ret.ok

\* the time.Time fields of the Limits struct
TimeFields ==
    [lastConnection |-> lastConnection, lastMessage |-> lastMessage,
     lastReset |-> lastReset]
\* the field a resource's last-sent timestamp would be kept in
StampField(resource) ==
    CASE resource = "Connection" -> "lastConnection"
      [] resource = "Message" -> "lastMessage"
      [] resource = "Search" -> "lastSearch"

\* C5 as stated: every Record<Resource> call increments the resource's counter
\* by one and sets the resource's last-sent timestamp to the current time.
C5_Original ==
    [][ /\ lastOp' = "RecordConnection" => connectionCount' = connectionCount + 1
        /\ lastOp' = "RecordMessage" => messageCount' = messageCount + 1
        /\ lastOp' = "RecordSearch" => searchCount' = searchCount + 1
        /\ \A r \in {"Connection", "Message", "Search"} :
               lastOp' = "Record" \o r =>
                   /\ StampField(r) \in DOMAIN TimeFields
                   /\ TimeFields'[StampField(r)] = now'
      ]_vars

\* C5 amended: RecordConnection and RecordMessage increment their counter by one
\* and set lastConnection / lastMessage to the current time; RecordSearch
\* increments searchCount only (Limits keeps no last-search timestamp);
\* RecordConnection also increments the consecutive counter, RecordMessage and
\* RecordSearch leave it unchanged; nothing else of the Limits state changes.
C5_RecordEffects ==
    [][ /\ lastOp' = "RecordConnection" =>
               /\ connectionCount' = connectionCount + 1
               /\ lastConnection' = now'
               /\ consecutiveCount' = consecutiveCount + 1
               /\ UNCHANGED <<messageCount, searchCount, lastMessage, lastReset,
                              config>>
        /\ lastOp' = "RecordMessage" =>
               /\ messageCount' = messageCount + 1
               /\ lastMessage' = now'
               /\ UNCHANGED <<connectionCount, searchCount, lastConnection,
                              consecutiveCount, lastReset, config>>
        /\ lastOp' = "RecordSearch" =>
               /\ searchCount' = searchCount + 1
               /\ UNCHANGED <<connectionCount, messageCount, lastConnection,
                              lastMessage, consecutiveCount, lastReset, config>>
      ]_vars

\* C5 witness: a search was just recorded, later than every timestamp held,
\* after a connection and a message were recorded
C5_Witness ==
    /\ lastOp = "RecordSearch"
    /\ searchCount > 0
    /\ lastConnection # ZeroTime /\ lastConnection < now
    /\ lastMessage # ZeroTime /\ lastMessage < now
    /\ lastReset < now

\* C6: ShouldResetDaily returns true exactly when the calendar date of the last
\* reset differs from the current calendar date.
C6_ShouldResetDailyByDate ==
    lastOp = "ShouldResetDaily" => (ret <=> Date(lastReset) # Date(now))

----------------------------------------------------------------------------
(* Properties of Scheduler (checked under SpecScheduler) *)

\* the three conditions ShouldRun guards against, read off the state
WeekdayConfigured ==
    \/ scheduleConfig.Weekdays = <<>>
    \/ Weekday(now) \in {scheduleConfig.Weekdays[i] :
                             i \in DOMAIN scheduleConfig.Weekdays}
WithinHours ==
    scheduleConfig.BusinessHoursOnly =>
        (scheduleConfig.StartHour <= Hour(now) /\ Hour(now) < scheduleConfig.EndHour)
BreakDue == scheduleConfig.BreakAfter > 0 /\ actionCount >= scheduleConfig.BreakAfter

WeekdayReason == "not a configured weekday: " \o Weekday(now)
HoursReason ==
    "outside business hours (" \o ToString(scheduleConfig.StartHour) \o ":00-"
    \o ToString(scheduleConfig.EndHour) \o ":00)"
BreakReason ==
    "break required after " \o ToString(scheduleConfig.BreakAfter) \o " actions"

\* C8: ShouldRun returns (true, "ok to run") exactly when the weekday is
\* configured (or no weekday is), the hour is within [StartHour, EndHour) when
\* BusinessHoursOnly is set, and no break is due; otherwise (false, reason of the
\* first failing check) in the order weekday, business hours, break.
C8_ShouldRunGate ==
    lastOp = "ShouldRun" =>
        /\ ret.ok <=> (WeekdayConfigured /\ WithinHours /\ ~BreakDue)
        /\ ret.ok => ret.reason = "ok to run"
        /\ ~WeekdayConfigured => ret = Denied(WeekdayReason)
        /\ WeekdayConfigured /\ ~WithinHours => ret = Denied(HoursReason)
        /\ WeekdayConfigured /\ WithinHours /\ BreakDue => ret = Denied(BreakReason)

\* C8 witness: on a configured weekday, outside the business hours and with a
\* break due, ShouldRun has answered with the business-hours reason
C8_Witness ==
    /\ lastOp = "ShouldRun"
    /\ scheduleConfig.Weekdays # <<>>
    /\ WeekdayConfigured /\ ~WithinHours /\ BreakDue
    /\ ret = Denied(HoursReason)

\* C9 as stated: once BreakAfter (> 0) actions were recorded since the last
\* break, ShouldRun does not permit running until a full BreakDuration sleep was
\* taken; after the sleep the counter is zero, no break is due, and the Limits
\* daily counters are unchanged.
C9_Original ==
    [][ /\ (/\ lastOp' = "ShouldRun"
            /\ scheduleConfig.BreakAfter > 0
            /\ actionsSinceBreak' >= scheduleConfig.BreakAfter) => ~ret'.ok
        /\ lastOp' = "TakeBreak" =>
               /\ now' - now = scheduleConfig.BreakDuration
               /\ actionCount' = 0
               /\ ~BreakDue'
               /\ UNCHANGED <<connectionCount, messageCount, searchCount>>
        /\ (lastOp = "TakeBreak" /\ lastOp' = "ShouldRun") =>
               ret'.reason # BreakReason
      ]_vars

\* C9 amended: once BreakAfter (> 0) actions were recorded since the last break,
\* ShouldRun does not permit running until TakeBreak has slept the full
\* BreakDuration or ResetActionCount was called (which clears the counter
\* without any sleep); after TakeBreak the counter is zero, no break is due, and
\* the Limits daily counters are unchanged.
C9_BreakForced ==
    [][ /\ (/\ lastOp' = "ShouldRun"
            /\ scheduleConfig.BreakAfter > 0
            /\ actionsSinceBreak' >= scheduleConfig.BreakAfter
            /\ ~resetSinceBreak') => ~ret'.ok
        /\ lastOp' = "TakeBreak" =>
               /\ now' - now = scheduleConfig.BreakDuration
               /\ actionCount' = 0
               /\ ~BreakDue'
               /\ UNCHANGED <<connectionCount, messageCount, searchCount>>
        /\ (lastOp = "TakeBreak" /\ lastOp' = "ShouldRun") =>
               ret'.reason # BreakReason
      ]_vars

\* C9 witness: BreakAfter actions were recorded since the last break, nothing
\* cleared the counter, connections and searches were counted, and ShouldRun
\* has answered that a break is required
C9_Witness ==
    /\ lastOp = "ShouldRun"
    /\ scheduleConfig.BreakAfter > 0
    /\ actionsSinceBreak >= scheduleConfig.BreakAfter
    /\ ~resetSinceBreak
    /\ lastBreakTime > 0
    /\ connectionCount > 0 /\ searchCount > 0
    /\ ret = Denied(BreakReason)

----------------------------------------------------------------------------
(* Properties of the shared instances (SpecLimitsConcurrent,                *)
(* SpecSchedulerConcurrent)                                                 *)

\* the goroutines that are inside a method body
InCall == {g \in Goroutines : pc[g] # Idle}
\* g is about to write a field / to read or write a field
AboutToWrite(g) == Instr(g)[1] \in {"inc", "zero", "now"}
AboutToAccess(g) == Instr(g)[1] \in {"load", "inc", "zero", "now", "ret"}

\* C7: the calls on one Limits take effect atomically under its mutex: a
\* goroutine inside a method body holds the mutex (so no two are inside at
\* once); while the mutex is free connectionCount is the number of completed
\* RecordConnection calls since the last reset (no increment lost), likewise
\* consecutiveCount; and what GetStats / GetConnectionCount return is the state
\* left by completed calls, never a partially applied RecordConnection or
\* ResetDaily.
C7_LimitsAtomic ==
    /\ \A g \in InCall : mu = g
    /\ mu = NoHolder =>
           /\ connectionCount = recorded
           /\ consecutiveCount = recordedConsecutive
    /\ \A g \in Goroutines :
           /\ (AtReturn(g) /\ op[g] = "GetStats") =>
                  res[g] = [sent |-> recorded,
                            consecutive_actions |-> recordedConsecutive]
           /\ (AtReturn(g) /\ op[g] = "GetConnectionCount") => res[g] = recorded

\* C7 witness: RecordConnection calls have completed, the consecutive counter
\* was reset in between, and a GetStats call is returning what they left
C7_Witness ==
    \E g \in Goroutines :
        /\ AtReturn(g) /\ op[g] = "GetStats"
        /\ recorded = 2 /\ recordedConsecutive = 1
        /\ res[g] = [sent |-> 2, consecutive_actions |-> 1]

\* no RecordAction increment is lost: with no call in progress, the counter
\* never cleared and no break taken, actionCount is the number of completed
\* RecordAction calls
NoLostAction ==
    (InCall = {} /\ ~resetSinceBreak /\ lastBreakTime = 0) =>
        actionCount = actionsSinceBreak

\* C10: the calls on one Scheduler exclude each other as under one mutex: no
\* call reads or writes a field while another call is about to write one, and
\* no RecordAction increment is lost.
C10_SchedulerAtomic ==
    /\ NoLostAction
    /\ \A g, h \in Goroutines :
           (g # h /\ AboutToWrite(g)) => ~AboutToAccess(h)

----------------------------------------------------------------------------
(* Properties of Checkpoint (checked under SpecCheckpoint) *)

\* some selector of the list resolves to a visible element / to any element
MarkerVisible(selectors) == \E sel \in Range(selectors) : page.elements[sel] = "visible"
MarkerPresent(selectors) == \E sel \in Range(selectors) : page.elements[sel] # "absent"
ChallengeURL == \E path \in Range(VerificationPaths) : contains(page.url, path)
BodyMentions(words) ==
    page.body # "absent" /\ \E w \in Range(words) : contains(page.text, w)

\* the five predicates in their priority order, each with its classification
DetectPredicates ==
    <<MarkerVisible(CaptchaSelectors),
      MarkerVisible(TwoFASelectors),
      MarkerVisible(VerificationSelectors) \/ ChallengeURL,
      MarkerPresent(RestrictionSelectors) \/ BodyMentions(RestrictionKeywords),
      MarkerPresent(UnusualActivitySelectors) \/ BodyMentions(UnusualActivityKeywords)>>
DetectClassifications ==
    <<[type |-> "captcha",
       message |-> "CAPTCHA challenge detected - manual intervention required"],
      [type |-> "2fa", message |-> "Two-factor authentication required"],
      [type |-> "verification", message |-> "Account verification required"],
      [type |-> "restricted", message |-> "Account has been restricted"],
      [type |-> "verification", message |-> "Unusual activity detected by LinkedIn"]>>
DetectCalls == {"Detect", "WaitAndDetect"}

\* C11: Detect returns the classification of the first of its five predicates
\* (CAPTCHA, 2FA, verification, account restriction, unusual activity, in that
\* order) that is true, and ("none", "") when none is true; a page with a
\* visible CAPTCHA marker and a visible 2FA marker is classified "captcha".
C11_DetectPriority ==
    lastOp \in DetectCalls =>
        LET hits == {i \in 1 .. 5 : DetectPredicates[i]}
        IN  /\ hits = {} => ret = [type |-> "none", message |-> ""]
            /\ hits # {} =>
                   \E i \in hits : /\ \A j \in hits : i <= j
                                   /\ ret = DetectClassifications[i]
            /\ (MarkerVisible(CaptchaSelectors) /\ MarkerVisible(TwoFASelectors))
                   => ret.type = "captcha"

C11_Witness ==
    /\ lastOp = "Detect"
    /\ MarkerVisible(CaptchaSelectors)
    /\ MarkerVisible(TwoFASelectors)
    /\ ret.type = "captcha"

\* C12: a page whose only checkpoint markers are invisible elements (no marker
\* is visible, the URL is no challenge URL and the body text holds no keyword)
\* is classified "none".
C12_InvisibleMarkersIgnored ==
    (/\ lastOp \in DetectCalls
     /\ \A sel \in CheckpointSelectors : page.elements[sel] # "visible"
     /\ ~ChallengeURL
     /\ ~BodyMentions(RestrictionKeywords)
     /\ ~BodyMentions(UnusualActivityKeywords))
        => ret.type = "none"

----------------------------------------------------------------------------
(* Properties of Parser (checked under SpecParser and SpecFilters) *)

\* the selector matches one or more elements
Matches(sel) == sel \notin page.broken /\ page.containers[sel] # <<>>
SomeContainerMatches == \E i \in 1 .. Len(ContainerSelectors) : Matches(ContainerSelectors[i])
\* the first container selector in list order that matches, and its cards
FirstMatching ==
    ContainerSelectors[CHOOSE i \in 1 .. Len(ContainerSelectors) :
                           /\ Matches(ContainerSelectors[i])
                           /\ \A j \in 1 .. (i - 1) : ~Matches(ContainerSelectors[j])]
MatchedCards == page.containers[FirstMatching]

\* a string up to its first "?"
CutQuery(h) ==
    IF \E i \in 1 .. Len(h) : SubSeq(h, i, i) = "?"
    THEN SubSeq(h, 1, (CHOOSE i \in 1 .. Len(h) :
                           /\ SubSeq(h, i, i) = "?"
                           /\ \A j \in 1 .. (i - 1) : SubSeq(h, j, j) # "?") - 1)
    ELSE h

\* the card carries a profile link; the link its URL is taken from
HasProfileLink(card) ==
    \E i \in 1 .. Len(card.anchors) : contains(card.anchors[i].href, "/in/")
CardLink(card) ==
    LET preferred == {i \in 1 .. Len(card.anchors) :
                         card.anchors[i].appAware /\ contains(card.anchors[i].href, "/in/")}
        any == {i \in 1 .. Len(card.anchors) : contains(card.anchors[i].href, "/in/")}
        pick(I) == CHOOSE i \in I : \A j \in I : i <= j
    IN  card.anchors[IF preferred # {} THEN pick(preferred) ELSE pick(any)]
HasProfileURL(card) == HasProfileLink(card) /\ CutQuery(CardLink(card).href) # ""

\* the elements of list at the indices I, in list order
KeepIndices(list, I) ==
    [k \in 1 .. Cardinality(I) |->
        list[CHOOSE i \in I : Cardinality({j \in I : j < i}) = k - 1]]

\* the profiles of the matched cards that yield one
CardProfiles ==
    LET kept == KeepIndices(MatchedCards,
                            {i \in 1 .. Len(MatchedCards) : HasProfileURL(MatchedCards[i])})
    IN  [k \in 1 .. Len(kept) |-> parseProfileCard(kept[k]).profile]

FallbackUsed ==
    <<"container parsing failed, using direct link strategy", "">> \in logged

\* C14 as stated: ParseResults uses the direct-link fallback exactly when no
\* container selector matches any element, and returns the profiles of the
\* matched cards whenever some selector matches.
C14_Original ==
    lastOp = "ParseResults" =>
        /\ FallbackUsed <=> ~SomeContainerMatches
        /\ SomeContainerMatches => ret = [profiles |-> CardProfiles, err |-> NoErr]

\* C14: ParseResults uses the direct-link fallback exactly when the container
\* strategy yields no profile (no container selector matches, or none of the
\* matched cards yields a profile); whenever the matched cards yield one or more
\* profiles the returned list consists of exactly those profiles.
C14_FallbackWhenNoCardProfile ==
    lastOp = "ParseResults" =>
        /\ FallbackUsed <=> (~SomeContainerMatches \/ CardProfiles = <<>>)
        /\ (SomeContainerMatches /\ CardProfiles # <<>>)
               => ret = [profiles |-> CardProfiles, err |-> NoErr]

C14_Witness ==
    /\ lastOp = "ParseResults"
    /\ SomeContainerMatches
    /\ CardProfiles = <<>>
    /\ FallbackUsed
    /\ ret.profiles # <<>>

\* C15 as stated: parseWithContainers uses the first container selector in list
\* order that matches; when k of the matched cards carry a profile link its
\* result has exactly k profiles, each with a non-empty ProfileURL, in card order.
C15_Original ==
    (lastOp = "parseWithContainers" /\ SomeContainerMatches) =>
        LET linked == KeepIndices(MatchedCards,
                          {i \in 1 .. Len(MatchedCards) : HasProfileLink(MatchedCards[i])})
        IN  /\ logged = {<<"found containers", FirstMatching>>}
            /\ ret.err = NoErr
            /\ Len(ret.profiles) = Len(linked)
            /\ \A k \in 1 .. Len(ret.profiles) :
                   /\ ret.profiles[k].ProfileURL # ""
                   /\ ret.profiles[k].ProfileURL = CutQuery(CardLink(linked[k]).href)

\* C15: parseWithContainers uses the first container selector in list order
\* that matches and no later one; a card without a profile link, or whose
\* profile link has nothing before its first "?", is skipped without aborting
\* the scrape, so when k of the matched cards carry a profile link with a
\* non-empty cleaned URL the result has exactly k profiles, each with a
\* non-empty ProfileURL, in card order.
C15_CardsWithURL ==
    (lastOp = "parseWithContainers" /\ SomeContainerMatches) =>
        LET linked == KeepIndices(MatchedCards,
                          {i \in 1 .. Len(MatchedCards) : HasProfileURL(MatchedCards[i])})
        IN  /\ logged = {<<"found containers", FirstMatching>>}
            /\ ret.err = NoErr
            /\ Len(ret.profiles) = Len(linked)
            /\ \A k \in 1 .. Len(ret.profiles) :
                   /\ ret.profiles[k].ProfileURL # ""
                   /\ ret.profiles[k].ProfileURL = CutQuery(CardLink(linked[k]).href)

C15_Witness ==
    /\ lastOp = "parseWithContainers"
    /\ Matches(ContainerSelectors[2])
    /\ Matches(ContainerSelectors[4])
    /\ Len(MatchedCards) = 2
    /\ ~HasProfileLink(MatchedCards[1])
    /\ HasProfileURL(MatchedCards[2])
    /\ Len(ret.profiles) = 1

\* the distinct cleaned URLs of the page's profile links: anchors whose href
\* contains "/in/" and is no company or school page
ProfileLinkURLs ==
    {CutQuery(PageAnchors[i].href) :
        i \in {j \in 1 .. Len(PageAnchors) :
                  /\ contains(PageAnchors[j].href, "/in/")
                  /\ ~contains(PageAnchors[j].href, "/company/")
                  /\ ~contains(PageAnchors[j].href, "/school/")}}

\* C16: on the fallback path ParseResults returns exactly one result for every
\* distinct cleaned profile URL among the page's profile links.
C16_OneResultPerProfileLink ==
    (lastOp = "ParseResults" /\ FallbackUsed /\ ret.err = NoErr) =>
        /\ Len(ret.profiles) = Cardinality(ProfileLinkURLs)
        /\ {ret.profiles[k].ProfileURL : k \in 1 .. Len(ret.profiles)} = ProfileLinkURLs

\* C17: the list returned by ParseResults never holds two results with the same
\* ProfileURL.
C17_NoDuplicateURL ==
    lastOp = "ParseResults" =>
        \A i, j \in 1 .. Len(ret.profiles) :
            i # j => ret.profiles[i].ProfileURL # ret.profiles[j].ProfileURL

\* the first occurrence of each ProfileURL / the profiles not connected
FirstOccurrences(list) ==
    KeepIndices(list, {i \in 1 .. Len(list) :
                          \A j \in 1 .. (i - 1) : list[j].ProfileURL # list[i].ProfileURL})
NotConnected(list) == KeepIndices(list, {i \in 1 .. Len(list) : ~list[i].IsConnected})

\* C18: DeduplicateProfiles returns the first occurrence of each ProfileURL in
\* list order (pairwise distinct URLs, and deduplicating the result changes
\* nothing), FilterConnectable returns the profiles with IsConnected = false in
\* list order, and neither changes the caller's list or a kept profile.
C18_PureFilters ==
    [][/\ lastOp' = "DeduplicateProfiles" =>
              /\ profiles' = profiles
              /\ ret' = FirstOccurrences(profiles)
              /\ \A i, j \in 1 .. Len(ret') :
                     i # j => ret'[i].ProfileURL # ret'[j].ProfileURL
              /\ FirstOccurrences(ret') = ret'
       /\ lastOp' = "FilterConnectable" =>
              /\ profiles' = profiles
              /\ ret' = NotConnected(profiles)
              /\ \A k \in 1 .. Len(ret') : ~ret'[k].IsConnected]_vars

C18_Witness ==
    /\ lastOp = "DeduplicateProfiles"
    /\ Len(profiles) = 3
    /\ Len(ret) = 2
    /\ profiles[1].ProfileURL = profiles[2].ProfileURL
    /\ profiles[1] # profiles[2]
    /\ ret = <<profiles[1], profiles[3]>>

----------------------------------------------------------------------------
(* Properties of Timing (checked under SpecTiming) *)

OtherDelays ==
    {"PageLoadDelay", "ShortPause", "MediumPause", "LongPause", "ReadingTime",
     "ThinkingDelay"}
\* the delay drawn by the last call times the fatigue multiplier
Multiplied ==
    (sampled * timingConfig.FatigueMultiplier.num) \div timingConfig.FatigueMultiplier.den

\* C19 as stated: once actionCount has reached FatigueAfter, every delay the
\* controller computes (action, page-load, short, medium, long, reading,
\* thinking) is the drawn delay multiplied by FatigueMultiplier.
C19_Original ==
    /\ (lastOp = "ActionDelay" /\ timingActionCount - 1 >= timingConfig.FatigueAfter)
           => ret = Multiplied
    /\ (lastOp \in OtherDelays /\ timingActionCount >= timingConfig.FatigueAfter)
           => ret = Multiplied

\* C19: once actionCount has reached FatigueAfter, every delay computed by
\* ActionDelay is the drawn delay multiplied by FatigueMultiplier (and the
\* drawn delay itself before that), until ResetFatigue is called; the other
\* delays (page-load, short, medium, long, reading, thinking) are never
\* multiplied.
C19_ActionDelayFatigue ==
    /\ (lastOp = "ActionDelay" /\ timingActionCount - 1 >= timingConfig.FatigueAfter)
           => ret = Multiplied /\ fatigueActive
    /\ (lastOp = "ActionDelay" /\ timingActionCount - 1 < timingConfig.FatigueAfter)
           => ret = sampled
    /\ lastOp \in OtherDelays => ret = sampled
    /\ lastOp = "ResetFatigue" => timingActionCount = 0 /\ ~fatigueActive

C19_Witness ==
    /\ lastOp = "ActionDelay"
    /\ timingActionCount - 1 >= timingConfig.FatigueAfter
    /\ ret = Multiplied
    /\ ret > sampled

----------------------------------------------------------------------------
(* Properties of main (checked under SpecMain) *)

CheckpointFound == detected \notin {NoRet, CheckpointNone}
StepsAfterCheckpoint ==
    {"ExecuteSearch", "ScrollDown", "ParseResults", "VisitProfile",
     "DryRunSendMessage", "ActionDelay"}
DetectSteps == {i \in 1 .. Len(executed) : executed[i] = "Detect"}

\* C13: in the orchestration a non-none result of Checkpoint.Detect is fatal
\* for the run: the process has ended with a non-zero exit status, Detect was
\* called exactly once and is the last step the run executed, and no search,
\* scroll, result parsing, profile visit, messaging or delay step was executed.
C13_CheckpointFatal ==
    CheckpointFound =>
        /\ mainPc = "exited"
        /\ exitStatus \in 1 .. 255
        /\ DetectSteps = {Len(executed)}
        /\ \A i \in 1 .. Len(executed) : executed[i] \notin StepsAfterCheckpoint
        /\ profiles = <<>>
        /\ messageRecords = <<>>
        /\ \A a \in siteActions : a.url = LoginURL

C13_Witness ==
    /\ CheckpointFound
    /\ detected = CheckpointRestricted
    /\ "Login" \in Range(executed)
    /\ exitStatus = 1

GuardedControls == {"Connect", "Send", "Message"}
LoginInputs == {"#username", "#password"}

\* C20: in dry-run mode a run performs no state-changing action on the site: no
\* Connect, Send or Message control is ever clicked, no text is typed outside
\* the login form, the Connect button is at most hovered, every hover of the
\* button is reported as a skipped click, and every message record has status
\* skipped and is reported as a skipped send.
C20_DryRunNoAction ==
    /\ DRY_RUN_MODE
    /\ \A a \in siteActions :
           /\ a.verb = "click" => a.control \notin GuardedControls
           /\ a.verb = "type" => a.control \in LoginInputs /\ a.url = LoginURL
           /\ a.control \in GuardedControls =>
                  /\ a.verb = "hover"
                  /\ <<"DRY_RUN would_click", a.url>> \in logged
    /\ \A i \in 1 .. Len(messageRecords) :
           /\ messageRecords[i].Status = MessageSkipped
           /\ <<"DRY_RUN would_send_message", messageRecords[i].ProfileURL>> \in logged

C20_Witness ==
    /\ mainPc = "exited"
    /\ exitStatus = 0
    /\ visitIndex = MAX_PROFILE_VISITS
    /\ \E a \in siteActions : a.verb = "hover" /\ a.control = "Connect"
    /\ Len(messageRecords) = 1
    /\ messageRecords[1].Status = MessageSkipped

----------------------------------------------------------------------------
(* Properties of the session steps (checked under SpecSession and SpecMain) *)

\* the sessions table held, when the run started, a session that is valid and
\* carries the authentication cookie
StoredValid ==
    \E r \in main.earlier : SessionIsValid(r.cookies) /\ HasAuthCookie(r.cookies)

\* the run has passed the login step
PastLogin == mainPc = "detect" \/ "Detect" \in Range(executed)

\* C21: a run that follows a run which stored a session that is still valid
\* finds that session, loads its cookies into the browser context and does not
\* execute the login again.
C21_SessionReused ==
    (main.run > 1 /\ PastLogin /\ StoredValid) =>
        /\ "LoadCookies" \in Range(executed)
        /\ "Login" \notin Range(executed)

\* C25: a run that has passed the login step has either completed
\* Login.Execute or installed the cookies of a successfully loaded saved
\* session with LoadCookies.
C25_LoginOrLoadedSession ==
    PastLogin =>
        \/ "Login" \in Range(executed)
        \/ "LoadCookies" \in Range(executed)

----------------------------------------------------------------------------
(* Properties of Mouse (checked under SpecBezier and SpecMouse) *)

\* C22: for step bounds 1 <= MinSteps <= MaxSteps, generateBezierPath(A, B)
\* returns a sequence whose length lies in [MinSteps, MaxSteps], whose first
\* point is A and whose last point is B.
C22_PathEndpoints ==
    (lastOp = "generateBezierPath" /\ 1 <= config.MinSteps
        /\ config.MinSteps <= config.MaxSteps) =>
        /\ Len(ret.points) \in config.MinSteps .. config.MaxSteps
        /\ ret.points[1] = ret.start
        /\ ret.points[Len(ret.points)] = ret.end

\* p lies within r of q on each axis
Near(p, q, r) == ~p.nan /\ Abs(p.X - q.X) <= r /\ Abs(p.Y - q.Y) <= r

\* the number of moves MoveTo issues after the path
OvershootMoves == IF config.Overshoot THEN 2 ELSE 0
JitterMoves == IF config.JitterRadius > 0 THEN 1 ELSE 0

\* C29: the moves of MoveTo are, in this order, the points of the path, then
\* (only with Overshoot) a point within OvershootSpread of the target and the
\* target itself, then (only with JitterRadius > 0) a point within JitterRadius
\* of the target; a failing move ends the sequence and its error is returned, and
\* a nil result means that every move was issued.
C29_MoveOrder ==
    lastOp = "MoveTo" =>
        LET moves == page.moves
            n == Len(ret.path)
        IN  /\ Len(moves) <= n + OvershootMoves + JitterMoves
            /\ (ret.err = NoErr) <=> (Len(moves) = n + OvershootMoves + JitterMoves)
            /\ \A i \in 1 .. Len(moves) :
                   /\ i <= n => moves[i] = ret.path[i]
                   /\ (config.Overshoot /\ i = n + 1) =>
                          Near(moves[i], ret.target, config.OvershootSpread)
                   /\ (config.Overshoot /\ i = n + 2) => moves[i] = ret.target
                   /\ i = n + OvershootMoves + 1 =>
                          Near(moves[i], ret.target, config.JitterRadius)

C29_Witness ==
    /\ lastOp = "MoveTo"
    /\ ret.err = NoErr
    /\ config.Overshoot
    /\ config.JitterRadius > 0
    /\ Len(ret.path) = MaxPathSteps
    /\ Len(page.moves) = MaxPathSteps + 3
    /\ page.moves[MaxPathSteps + 1] # ret.target
    /\ page.pointer # ret.target

\* C30: a MoveTo issued after an earlier MoveTo starts its path at the position
\* where the earlier call left the pointer.
C30_StartsAtPointer ==
    [][(lastOp = "MoveTo" /\ lastOp' = "MoveTo" /\ page'.moves # <<>>) =>
           page'.moves[1] = page.pointer]_vars

----------------------------------------------------------------------------
(* Properties of Typing (checked under SpecTyping) *)

\* the text left by keystrokes, each Backspace deleting the keystroke before it
RECURSIVE NetText(_, _)
NetText(keys, text) ==
    IF keys = <<>>
    THEN text
    ELSE IF Head(keys).key = Backspace
         THEN NetText(Tail(keys), SubSeq(text, 1, Len(text) - 1))
         ELSE NetText(Tail(keys), text \o Head(keys).key)

\* the words joined by single spaces
RECURSIVE JoinWords(_)
JoinWords(words) ==
    IF words = <<>>
    THEN ""
    ELSE IF Len(words) = 1
         THEN words[1]
         ELSE words[1] \o " " \o JoinWords(Tail(words))

\* the characters of text outside its separators
WordChars(text) ==
    {i \in 1 .. Len(text) : SubSeq(text, i, i) \notin {" ", "\n", "\t"}}

\* C23: Type never sends a typo before the first character of a word; every
\* typo the keyboard accepted is followed by exactly one Backspace and then by a
\* character of the text, as far as Type got; with ErrorRate <= 0 no typo and
\* no Backspace is sent; and when Type returns nil, the net text equals the
\* words of the text joined by single spaces.
C23_TyposCorrected ==
    lastOp = "Type" =>
        LET keys == page.keys
            n == Len(keys)
        IN  /\ \A k \in 1 .. n :
                   keys[k].typo =>
                       /\ k > 1
                       /\ ~keys[k - 1].typo
                       /\ keys[k - 1].key \notin {" ", Backspace}
                       /\ k + 1 <= n => keys[k + 1] = Key(Backspace, FALSE)
                       /\ k + 2 <= n =>
                              /\ ~keys[k + 2].typo
                              /\ keys[k + 2].key \notin {" ", Backspace}
                       /\ ret = NoErr => k + 2 <= n
            /\ \A k \in 1 .. n :
                   keys[k].key = Backspace => (k > 1 /\ keys[k - 1].typo)
            /\ config.ErrorRate <= 0 =>
                   \A k \in 1 .. n : ~keys[k].typo /\ keys[k].key # Backspace
            /\ ret = NoErr =>
                   /\ NetText(keys, "") = JoinWords(splitIntoWords(page.text))
                   /\ Len(NetText(keys, "")) >= Cardinality(WordChars(page.text))

C23_Witness ==
    /\ lastOp = "Type"
    /\ ret = NoErr
    /\ page.text = "ab\tb"
    /\ NetText(page.keys, "") = "ab b"
    /\ Cardinality({k \in 1 .. Len(page.keys) : page.keys[k].typo}) = 1
    /\ Len(page.keys) = 6

----------------------------------------------------------------------------
(* Properties of Scroll.ScrollToBottom (checked under SpecScroll) *)

\* the iterations before the last one compared
Earlier(log) == 1 .. Len(log) - 1

\* what C24 says of the loop apart from the iterations that scroll back
LoopStops ==
    /\ \A i \in Earlier(page.log) : page.log[i].before # page.log[i].after
    /\ (page.running /\ page.log # <<>>) =>
           page.log[Len(page.log)].before # page.log[Len(page.log)].after
    /\ ret = NoErr <=>
           /\ ~page.running
           /\ page.log # <<>>
           /\ page.log[Len(page.log)].before = page.log[Len(page.log)].after
    /\ ret \notin {NoRet, NoErr} => ~page.running

\* C24 as stated: ScrollToBottom stops, with success, at the first iteration
\* whose scroll height is the same before and after the scroll; it scrolls back
\* only in iterations where the height grew; a failed height query or scroll
\* ends it with that error; and a call on a page whose height stops growing
\* returns.
C24_Original ==
    /\ [](LoopStops
          /\ \A i \in 1 .. Len(page.log) :
                 page.log[i].back => page.log[i].after > page.log[i].before)
    /\ (page.running ~> ~page.running)

\* C24: ScrollToBottom stops, with success, at the first iteration whose scroll
\* height is the same before and after the scroll; it scrolls back only in
\* iterations where the height differed, grown or shrunk; a failed height query
\* or scroll ends it with that error; and a call on a page whose height stops
\* changing returns.
C24_StopsAtEqualHeights ==
    /\ [](LoopStops
          /\ \A i \in 1 .. Len(page.log) :
                 page.log[i].back => page.log[i].after # page.log[i].before)
    /\ (page.running ~> ~page.running)

C24_Witness ==
    /\ ret = NoErr
    /\ lastOp = "ScrollToBottom"
    /\ Len(page.log) = MaxGrowth + 1
    /\ page.log[1].back
    /\ page.log[1].after > page.log[1].before
    /\ page.log[2].after < page.log[2].before
    /\ ~page.log[MaxGrowth].back

----------------------------------------------------------------------------
(* Property of the guarded callers of Limits (checked under SpecLimitsGuarded) *)

\* C26: when every caller records a connection only after its own
\* CanSendConnection returned true, connectionCount never exceeds
\* DailyConnections and consecutiveCount never exceeds MaxConsecutiveActions,
\* whatever the interleaving of the goroutines' calls.
C26_CapsRespected ==
    /\ connectionCount <= config.DailyConnections
    /\ consecutiveCount <= config.MaxConsecutiveActions

----------------------------------------------------------------------------
(* Further properties of Timing (checked under SpecTiming) *)

\* the ActionDelay calls among the calls counted since the last ResetFatigue
DelaysSinceReset(t) ==
    Cardinality({i \in 1 .. Len(t.sinceReset) : t.sinceReset[i] = "ActionDelay"})

\* what C27 says of the counter and of the flag
CounterFrame ==
    /\ lastOp' = "ActionDelay" => timing'.actionCount = timing.actionCount + 1
    /\ lastOp' \in OtherDelays \cup {"Wait"} =>
           timing'.actionCount = timing.actionCount
    /\ lastOp' = "ResetFatigue" =>
           timing'.actionCount = 0 /\ ~timing'.fatigueActive

\* C27 as stated: every ActionDelay adds exactly one to the action counter, no
\* other delay method changes it, ResetFatigue sets the counter to 0 and the
\* flag to false, and the next FatigueAfter ActionDelay calls after a
\* ResetFatigue return the drawn delay, not multiplied.
C27_Original ==
    [][/\ CounterFrame
       /\ (lastOp' = "ActionDelay" /\ timing'.wasReset
              /\ DelaysSinceReset(timing') <= timing'.config.FatigueAfter) =>
              ret' = timing'.sampled]_vars

\* C27: every ActionDelay adds exactly one to the action counter, no other
\* delay method changes it, ResetFatigue sets the counter to 0 and the flag to
\* false, and the next FatigueAfter ActionDelay calls after a ResetFatigue
\* return the drawn delay, not multiplied, as long as IncrementAction has not
\* been called since that ResetFatigue.
C27_CounterAndReset ==
    [][/\ CounterFrame
       /\ (lastOp' = "ActionDelay" /\ timing'.wasReset
              /\ DelaysSinceReset(timing') <= timing'.config.FatigueAfter
              /\ "IncrementAction" \notin Range(timing'.sinceReset)) =>
              ret' = timing'.sampled]_vars

C27_Witness ==
    /\ lastOp = "ActionDelay"
    /\ timing.wasReset
    /\ timing.sinceReset = <<"ActionDelay", "ActionDelay">>
    /\ timingConfig.FatigueAfter = 2
    /\ timingActionCount = 2
    /\ ret = sampled
    /\ ~fatigueActive

\* the bounds of the delay methods that return logNormalDelay(min, max) as drawn
DelayBound(name) ==
    CASE name = "PageLoadDelay" -> <<1 * Second, 3 * Second>>
      [] name = "ShortPause" -> <<200 * Millisecond, 800 * Millisecond>>
      [] name = "MediumPause" -> <<1 * Second, 3 * Second>>
      [] name = "LongPause" -> <<3 * Second, 8 * Second>>
      [] name = "ThinkingDelay" -> <<1 * Second, 5 * Second>>

\* C28: logNormalDelay(min, max) with min <= max returns a duration within
\* [min, max]; hence the page-load, short, medium, long and thinking delays lie
\* within their bounds, ReadingTime lies within [2s, 30s] and, for a
\* FatigueMultiplier of at least 1, ActionDelay lies within
\* [MinActionDelay, MaxActionDelay x FatigueMultiplier].
C28_DelaysWithinBounds ==
    /\ lastOp = "logNormalDelay" => (ret.min <= ret.delay /\ ret.delay <= ret.max)
    /\ lastOp \in OtherDelays \ {"ReadingTime"} =>
           (DelayBound(lastOp)[1] <= ret /\ ret <= DelayBound(lastOp)[2])
    /\ lastOp = "ReadingTime" => (2 * Second <= ret /\ ret <= 30 * Second)
    /\ (lastOp = "ActionDelay"
           /\ timingConfig.FatigueMultiplier.num >= timingConfig.FatigueMultiplier.den) =>
           /\ timingConfig.MinActionDelay <= ret
           /\ ret <= Scaled(timingConfig.MaxActionDelay, timingConfig.FatigueMultiplier)

----------------------------------------------------------------------------
(* Properties of DryRun.VisitProfile (checked under SpecMain) *)

\* C31: DryRun.VisitProfile returns an error only when the navigation to the
\* profile fails: a visit whose navigation succeeded returns nil whatever
\* happens in its later steps (reading the window for the mouse movement,
\* finding the button, its shape, the move to it), so that main goes on with
\* its loop, and a visit whose navigation failed returns the error, which main
\* logs
C31_VisitDegrades ==
    [][(mainPc = "visit" /\ main' # main) =>
           /\ page'.navigable => main'.pc # "exited"
           /\ <<"DRY_RUN visit failed", profiles[visitIndex + 1].ProfileURL>>
                  \in logged' \ logged
              => ~page'.navigable]_vars

\* no container selector matches and no anchor of the page is a profile link
NothingToParse ==
    /\ UsedSelector(1) = 0
    /\ SelectSeq(PageAnchors, IsProfileLink) = <<>>

\* the run has neither visited a profile nor demonstrated a message
NothingVisited ==
    /\ "VisitProfile" \notin Range(executed)
    /\ "DryRunSendMessage" \notin Range(executed)
    /\ messageRecords = <<>>
    /\ \A act \in siteActions : act.url \in {LoginURL, SearchURL}

\* C32: when no container selector matches and the page has no profile link,
\* ParseResults returns an empty list and no error, and main then exits with
\* status 0 having visited no profile and demonstrated no message
C32_EmptyParseExitsCleanly ==
    /\ [][(mainPc = "parse" /\ main' # main /\ NothingToParse) =>
              /\ ParseResultsRet = [profiles |-> <<>>, err |-> NoErr]
              /\ profiles' = <<>>
              /\ main'.pc = "exited"
              /\ main'.exitStatus = 0]_vars
    /\ [](mainPc = "exited" /\ executed # <<>>
              /\ executed[Len(executed)] = "ParseResults" => NothingVisited)

C32_Witness ==
    /\ mainPc = "exited"
    /\ exitStatus = 0
    /\ executed # <<>>
    /\ executed[Len(executed)] = "ParseResults"
    /\ NothingToParse
    /\ profiles = <<>>
    /\ NothingVisited

\* the steps of main that navigate the page
Navigations == {"Login", "ExecuteSearch", "VisitProfile"}

\* C33: main validates the page it has navigated to before it extracts from
\* it: whenever ParseResults has been invoked, a Checkpoint.Detect that
\* returned CheckpointNone lies between the most recent navigation before it
\* (the search navigation) and the ParseResults call
C33_DetectAfterNavigation ==
    \A k \in 1 .. Len(executed) :
        executed[k] = "ParseResults" =>
            \E j \in 1 .. (k - 1) :
                /\ executed[j] = "Detect"
                /\ detected = CheckpointNone
                /\ \A n \in (j + 1) .. (k - 1) : executed[n] \notin Navigations

----------------------------------------------------------------------------
(* Properties of cleanName (checked under SpecCleanName) *)

\* the text has no white space at either end, no two consecutive spaces and no
\* newline
Tidy(s) ==
    /\ TrimSpace(s) = s
    /\ ~contains(s, "  ")
    /\ ~contains(s, "\n")

\* the text contains none of the boilerplate phrases
JunkFree(s) == \A i \in 1 .. Len(JunkPhrases) : ~contains(s, JunkPhrases[i])

\* the white-space guarantees of cleanName and its two examples
TidyResult ==
    lastOp = "cleanName" =>
        /\ Tidy(ret)
        /\ page.text = "Rakesh V\nRakesh V's profile" => ret = "Rakesh V"
        /\ page.text = "  Jane   Doe  " => ret = "Jane Doe"

\* C34: for every text the result of cleanName has no leading or trailing white
\* space, no two consecutive spaces, no newline, and contains none of the
\* boilerplate phrases; "Rakesh V\nRakesh V's profile" gives "Rakesh V" and
\* "  Jane   Doe  " gives "Jane Doe"
C34_CleanNameResult ==
    lastOp = "cleanName" => (TidyResult /\ JunkFree(ret))

----------------------------------------------------------------------------
(* Properties of Session (checked under SpecSessionManager) *)

\* C35: a FromJSON that returns an error (malformed data or an expired
\* session) leaves sessionID and cookies of the Session as they were; only a
\* successful load replaces them
C35_FromJSONAtomic ==
    [][(lastOp' = "FromJSON" /\ ret'.err # NoErr) =>
           (main'.sessionID = main.sessionID /\ main'.cookies = main.cookies)]_vars

----------------------------------------------------------------------------
(* Properties of calculateNextStartTime (checked under SpecNextStart) *)

\* the configured weekdays name a day of the week, or there is no restriction
NamesAWeekday ==
    \/ scheduleConfig.Weekdays = <<>>
    \/ \E i \in 1 .. Len(scheduleConfig.Weekdays) :
           scheduleConfig.Weekdays[i] \in Range(WeekdayNames)

\* what calculateNextStartTime returns is not earlier than its argument and
\* lies on a configured weekday
NextStartResult ==
    ret.pc = "returned" => (ret.next >= ret.from /\ isValidWeekday(ret.next))

\* calculateNextStartTime terminates when a configured weekday exists
NextStartTerminatesForWeekdays ==
    (ret.pc = "loop" /\ NamesAWeekday) ~> ret.pc = "returned"

\* C36: for every schedule configuration the loader accepts,
\* calculateNextStartTime terminates, and what it returns is not earlier than
\* its argument and falls on a configured weekday
C36_NextStartTerminates ==
    /\ []NextStartResult
    /\ ret.pc = "loop" ~> ret.pc = "returned"

----------------------------------------------------------------------------
(* Properties of Fingerprint (checked under SpecFingerprint) *)

\* the platform of a user agent by substring search, "Win" before "Mac" before
\* "Linux"
PlatformBySubstring(userAgent) ==
    IF contains(userAgent, "Win") THEN "Win32"
    ELSE IF contains(userAgent, "Mac") THEN "MacIntel"
    ELSE IF contains(userAgent, "Linux") THEN "Linux x86_64"
    ELSE "Win32"

\* C37: the Platform of a generated fingerprint is derived from its user agent
\* by substring search: "Win" anywhere gives "Win32", otherwise "Mac" anywhere
\* gives "MacIntel", otherwise "Linux" anywhere gives "Linux x86_64", and only a
\* user agent with none of them falls back to "Win32"
C37_PlatformFromUserAgent ==
    (lastOp = "GenerateFingerprint" /\ ret.err = NoErr) =>
        ret.fp.Platform = PlatformBySubstring(ret.fp.UserAgent)

\* C40: Fingerprint.String, called on any fingerprint GenerateFingerprint
\* returns from a configured user-agent pool, returns a description and does
\* not panic
C40_StringNeverPanics ==
    lastOp = "String" => (~ret.panic /\ ret.string # "")

----------------------------------------------------------------------------
(* Properties of updatePageParam (checked under SpecPagination) *)

\* the query parameters named page in the URL
PageParams(url) ==
    {i \in 1 .. Len(url) :
        /\ i + 5 <= Len(url)
        /\ SubSeq(url, i, i + 5) \in {"?page=", "&page="}}

\* C38: the URL a successful GoToPage(n) navigates to, updatePageParam(u, n),
\* has exactly one page parameter and its value is n; updating it again with
\* any m >= 1 gives updatePageParam(u, m), so repeated GoToPage calls do not
\* accumulate page parameters
C38_OnePageParam ==
    (lastOp = "GoToPage" /\ ret.err = NoErr) =>
        /\ \E i \in 1 .. Len(page.URL) :
               /\ PageParams(page.URL) = {i}
               /\ SkipDigits(page.URL, i + 5) = i + 5 + Len(Itoa(ret.pageNum))
               /\ SubSeq(page.URL, i + 6, i + 5 + Len(Itoa(ret.pageNum)))
                      = Itoa(ret.pageNum)
        /\ \A m \in PageNums \ {0} :
               updatePageParam(page.URL, m) = updatePageParam(ret.from, m)

----------------------------------------------------------------------------
(* Properties of smoothScroll (checked under SpecSmoothScroll) *)

RECURSIVE SumOf(_)
SumOf(deltas) == IF deltas = <<>> THEN 0 ELSE Head(deltas) + SumOf(Tail(deltas))

\* no executed delta has the sign opposite to the distance asked for
NoOppositeDelta ==
    \A i \in 1 .. Len(page) : page[i] * ret.totalDistance >= 0

\* smoothScroll(0) issues no scroll, and a configured step count <= 0 is
\* replaced by 10 steps
ZeroAndDefault ==
    /\ ret.totalDistance = 0 => (page = <<>> /\ ret.calls = 0 /\ ret.err = NoErr)
    /\ (ret.totalDistance # 0 /\ ret.err = NoErr) =>
           ret.calls = (IF config.ScrollSteps <= 0 THEN 10 ELSE config.ScrollSteps)

\* C39 as stated: for every non-zero totalDistance and every configured step
\* count the deltas smoothScroll has executed sum exactly to totalDistance and
\* none has the opposite sign; smoothScroll(0) issues no scroll and a step
\* count <= 0 is replaced by 10
C39_Original ==
    lastOp = "smoothScroll" =>
        /\ ret.totalDistance # 0 => SumOf(page) = ret.totalDistance
        /\ NoOppositeDelta
        /\ ZeroAndDefault

\* C39: when smoothScroll returns nil for a non-zero totalDistance that
\* float64 represents exactly, the deltas it has executed sum exactly to
\* totalDistance; in every call no delta has the opposite sign, a call that
\* fails has executed the deltas before the failing one only,
\* smoothScroll(0) issues no scroll and a step count <= 0 is replaced by 10
C39_DeltasSumToDistance ==
    lastOp = "smoothScroll" =>
        /\ (ret.totalDistance # 0 /\ ret.err = NoErr
                /\ Abs(ret.totalDistance) <= MaxExactFloat) =>
               SumOf(page) = ret.totalDistance
        /\ (ret.totalDistance # 0 /\ ret.err = NoErr) =>
               SumOf(page) = Float64(ret.totalDistance)
        /\ ret.err # NoErr => Len(page) = ret.calls - 1
        /\ NoOppositeDelta
        /\ ZeroAndDefault

\* a successful call with the default step count in which truncation made
\* a step of zero and steps of different sizes
C39_Witness ==
    /\ lastOp = "smoothScroll"
    /\ ret.err = NoErr
    /\ config.ScrollSteps <= 0
    /\ ret.totalDistance = -7
    /\ Len(page) = 10
    /\ \E i \in 1 .. Len(page) : page[i] = 0
    /\ \E i \in 1 .. Len(page) : page[i] < -1
    /\ SumOf(page) = -7

====
